---- MODULE Spec2Model ----
(***************************************************************************)
(* Event Sourcing core of the NestJS DDD/CQRS example:                     *)
(*   InMemoryEventStore              (in-memory-event-store.ts)            *)
(*   EventSourcedAggregateRoot       (event-sourced-aggregate.ts)          *)
(*   UserEventSourcedAggregate       (user-event-sourced.aggregate.ts)     *)
(*   UserEventSourcedRepository      (user-event-sourced.repository.ts)    *)
(*                                                                         *)
(* JavaScript runs every function to completion between two awaits, so a   *)
(* handler is split into one action per stretch of code between awaits.    *)
(***************************************************************************)
EXTENDS Integers, Sequences, FiniteSets, TLC

\* ------------------------------------------------------------------ bounds
MaxVersion == 4
MaxClock == 1
MaxStoreVersion == 3
MaxSnapVersion == 2
MaxHistory == 2
MaxIsoVersion == 2
MaxRunVersion == 11
MaxLifeVersion == 5
\* the longest history of the two callers of SpecShot
MaxShotVersion == 10

MaxApplyVersion == 2

\* ------------------------------------------------------- program constants
SnapshotInterval == 10
EventSchemaVersion == 1

\* ------------------------------------------------------------ input sets
Procs == {1, 2}
Ids == {"u1"}
RawEmails == {"a@x.com", "A@X.com", "b@x.com"}
Names == {[firstName |-> <<"Mary", "Ann">>, lastName |-> <<"Smith">>]}
Reasons == {"reason"}
Uuids == {"uuid-1", "uuid-2"}
TwoIds == {"u1", "u2"}
KnownEventTypes == {"UserCreatedEvent", "UserActivatedEvent", "UserBlockedEvent",
                    "UserEmailVerifiedEvent", "UserEmailChangedEvent"}

\* JavaScript undefined, per type of the slot that holds it
NoString == ""
NoName == <<>>
NoDate == -1

VARIABLES events, versions, snapshots, now, agg, pc, local, result, loadedVersion

vars == <<events, versions, snapshots, now, agg, pc, local, result, loadedVersion>>

\* ------------------------------------------------------------- Map helpers
MapGet(m, k, d) == IF k \in DOMAIN m THEN m[k] ELSE d

MapSet(m, k, v) == [x \in (DOMAIN m) \cup {k} |-> IF x = k THEN v ELSE m[x]]

\* ------------------------------------------------------------------- Dates
\* Date.prototype.toISOString and new Date(isoString): the ISO text keeps the
\* millisecond value, so parsing gives the same instant back.
ToISOString(d) == <<"iso", d>>

NewDate(s) == s[2]

\* ------------------------------------------------------------ value objects
\* Email.create: email.toLowerCase().trim()
EmailCreate(raw) == IF raw = "A@X.com" THEN "a@x.com" ELSE raw

\* `${firstName} ${lastName}`: the words of both parts, separated by spaces
FullNameOf(firstName, lastName) == firstName \o lastName

\* UserName.create over fullName.split(' '): names[0] and names.slice(1).join(' ')
SplitFullName(fullName) ==
    [firstName |-> IF Len(fullName) > 0 THEN <<Head(fullName)>> ELSE <<>>,
     lastName  |-> IF Len(fullName) > 0 THEN Tail(fullName) ELSE <<>>]

\* ------------------------------------------------------------ domain events
\* BaseDomainEvent and its five subclasses; occurredAt is new Date() at
\* construction, aggregateVersion is stamped by applyEvent (0: not stamped).
DomainEvent(type, aggregateId, t, email, fullName, reason, oldEmail, newEmail) ==
    [type |-> type, aggregateId |-> aggregateId, occurredAt |-> t,
     email |-> email, fullName |-> fullName, reason |-> reason,
     oldEmail |-> oldEmail, newEmail |-> newEmail, aggregateVersion |-> 0]

UserCreatedEvent(userId, email, fullName, t) ==
    DomainEvent("UserCreatedEvent", userId, t, email, fullName, NoString, NoString, NoString)

UserActivatedEvent(userId, email, t) ==
    DomainEvent("UserActivatedEvent", userId, t, email, NoName, NoString, NoString, NoString)

UserBlockedEvent(userId, email, reason, t) ==
    DomainEvent("UserBlockedEvent", userId, t, email, NoName, reason, NoString, NoString)

UserEmailVerifiedEvent(userId, email, t) ==
    DomainEvent("UserEmailVerifiedEvent", userId, t, email, NoName, NoString, NoString, NoString)

UserEmailChangedEvent(userId, oldEmail, newEmail, t) ==
    DomainEvent("UserEmailChangedEvent", userId, t, NoString, NoName, NoString, oldEmail, newEmail)

\* --------------------------------------------------------- InMemoryEventStore
\* getAggregateTypeFromEvent: event.constructor.name.startsWith('User')
getAggregateTypeFromEvent(event) ==
    IF event.type \in KnownEventTypes \cup {"UserLoggedInEvent"} THEN "User" ELSE "Unknown"

\* mutant: only the fields of the base event are stored
serializeEventBare(event) ==
    [type |-> event.type, aggregateId |-> event.aggregateId,
     occurredAt |-> ToISOString(event.occurredAt),
     email |-> NoString, fullName |-> NoName, reason |-> NoString,
     oldEmail |-> NoString, newEmail |-> NoString]

\* serializeEvent + getEventData: the event's own fields without aggregateVersion,
\* with type, aggregateId and occurredAt.toISOString() put in front
serializeEvent(event) ==
    [type |-> event.type, aggregateId |-> event.aggregateId,
     occurredAt |-> ToISOString(event.occurredAt),
     email |-> event.email, fullName |-> event.fullName, reason |-> event.reason,
     oldEmail |-> event.oldEmail, newEmail |-> event.newEmail]

\* the StoredEvent that saveEvents builds for one event (eventId and correlationId
\* are random UUIDs that nothing reads)
StoredEventOf(aggregateId, event, versionCounter) ==
    [metadata |-> [aggregateId |-> aggregateId,
                   aggregateType |-> getAggregateTypeFromEvent(event),
                   eventType |-> event.type,
                   eventVersion |-> EventSchemaVersion,
                   aggregateVersion |-> versionCounter,
                   timestamp |-> event.occurredAt],
     data |-> serializeEvent(event)]

\* mutant: one version counter for all the streams
CurrentVersionOfStore(vs, aggregateId) ==
    IF DOMAIN vs = {} THEN 0
    ELSE CHOOSE v \in {vs[id] : id \in DOMAIN vs} : \A id \in DOMAIN vs : vs[id] <= v

\* const currentVersion = this.versions.get(aggregateId) || 0
CurrentVersion(vs, aggregateId) == MapGet(vs, aggregateId, 0)

\* mutant: no append is taken as a conflict
VersionConflictNever(currentVersion, expectedVersion) == FALSE

\* mutant: only a store that is ahead of the caller is taken as a conflict
VersionConflictOnlyAhead(currentVersion, expectedVersion) == currentVersion > expectedVersion

\* if (currentVersion !== expectedVersion) throw new ConcurrencyError(...)
VersionConflict(currentVersion, expectedVersion) == currentVersion # expectedVersion

\* mutant: the counter is read before it is incremented
AssignVersionsLate(aggregateId, evs, currentVersion) ==
    [i \in 1..Len(evs) |-> StoredEventOf(aggregateId, evs[i], currentVersion + i - 1)]

\* events.map(event => { versionCounter++; ... aggregateVersion: versionCounter })
AssignVersions(aggregateId, evs, currentVersion) ==
    [i \in 1..Len(evs) |-> StoredEventOf(aggregateId, evs[i], currentVersion + i)]

\* mutant: the new events replace the stream instead of extending it
AppendStoredReplacing(es, aggregateId, storedEvents) == MapSet(es, aggregateId, storedEvents)

\* aggregateEvents.push(...storedEvents); this.events.set(aggregateId, aggregateEvents)
AppendStored(es, aggregateId, storedEvents) ==
    MapSet(es, aggregateId, MapGet(es, aggregateId, <<>>) \o storedEvents)

\* mutant: the recorded version is not advanced
AdvanceVersionForgotten(vs, aggregateId, versionCounter) == vs

\* this.versions.set(aggregateId, versionCounter)
AdvanceVersion(vs, aggregateId, versionCounter) == MapSet(vs, aggregateId, versionCounter)

\* mutant: the two versions are passed in the wrong order
ConcurrencyErrorSwapped(aggregateId, expectedVersion, actualVersion) ==
    [outcome |-> "ConcurrencyError", aggregateId |-> aggregateId,
     expectedVersion |-> actualVersion, actualVersion |-> expectedVersion, value |-> 0]

\* new ConcurrencyError(aggregateId, expectedVersion, actualVersion)
ConcurrencyError(aggregateId, expectedVersion, actualVersion) ==
    [outcome |-> "ConcurrencyError", aggregateId |-> aggregateId,
     expectedVersion |-> expectedVersion, actualVersion |-> actualVersion, value |-> 0]

\* a call that returned a number
ReturnedValue(outcome, value) ==
    [outcome |-> outcome, aggregateId |-> NoString, expectedVersion |-> 0, actualVersion |-> 0,
     value |-> value]

\* a call that returned no number, or threw an error that carries none
Returned(outcome) == ReturnedValue(outcome, 0)

\* saveEvents(aggregateId, events, expectedVersion) on the store <<es, vs>>: the
\* store it leaves and what the call returns or throws. The body has no await, so
\* it runs as one step.
saveEvents(es, vs, aggregateId, evs, expectedVersion) ==
    LET currentVersion == CurrentVersion(vs, aggregateId)
    IN  IF VersionConflict(currentVersion, expectedVersion)
        THEN [events |-> es, versions |-> vs,
              result |-> ConcurrencyError(aggregateId, expectedVersion, currentVersion)]
        ELSE [events |-> AppendStored(es, aggregateId,
                                      AssignVersions(aggregateId, evs, currentVersion)),
              versions |-> AdvanceVersion(vs, aggregateId, currentVersion + Len(evs)),
              result |-> Returned("ok")]

\* mutant: the event at fromVersion itself is returned too
getEventsForAggregateInclusive(es, aggregateId, fromVersion) ==
    SelectSeq(MapGet(es, aggregateId, <<>>),
              LAMBDA e : e.metadata.aggregateVersion >= fromVersion)

\* getEventsForAggregate(aggregateId, fromVersion): events.filter(aggregateVersion > fromVersion)
getEventsForAggregate(es, aggregateId, fromVersion) ==
    SelectSeq(MapGet(es, aggregateId, <<>>),
              LAMBDA e : e.metadata.aggregateVersion > fromVersion)

\* getEventsForAggregate(aggregateId) with fromVersion omitted: the stored array
getAllEventsForAggregate(es, aggregateId) == MapGet(es, aggregateId, <<>>)

\* allEvents.sort((a, b) => a.metadata.timestamp.getTime() - b...): a stable sort,
\* so events of one timestamp keep their order; here for the timestamps t..last
RECURSIVE SortByTimestamp(_, _, _)
SortByTimestamp(s, t, last) ==
    IF t > last THEN <<>>
    ELSE SelectSeq(s, LAMBDA e : e.metadata.timestamp = t) \o SortByTimestamp(s, t + 1, last)

\* the streams of the map one after the other
RECURSIVE AllStoredEvents(_, _)
AllStoredEvents(es, ids) ==
    IF ids = {} THEN <<>>
    ELSE LET id == CHOOSE x \in ids : TRUE
         IN  es[id] \o AllStoredEvents(es, ids \ {id})

\* getEventsAfter(timestamp): the events of all streams with a timestamp greater
\* than the given one, sorted by timestamp; last is the latest time there is
getEventsAfter(es, timestamp, last) ==
    SortByTimestamp(SelectSeq(AllStoredEvents(es, DOMAIN es),
                              LAMBDA e : e.metadata.timestamp > timestamp),
                    timestamp, last)

\* clear(): this.events.clear(); this.versions.clear()
clear(es, vs) == [events |-> [x \in {} |-> <<>>], versions |-> [x \in {} |-> 0]]

\* --------------------------------------------------- EventSourcedAggregateRoot
\* new UserEventSourcedAggregate(id): _version = 0, no uncommitted events,
\* _isEmailVerified = false, every other field undefined
NewAggregate(id) ==
    [id |-> id, version |-> 0, uncommitted |-> <<>>,
     email |-> NoString, userName |-> [firstName |-> NoName, lastName |-> NoName],
     status |-> "undefined", isEmailVerified |-> FALSE,
     createdAt |-> NoDate, lastLoginAt |-> NoDate]

\* constructor(id?): this._id = id || crypto.randomUUID(); an empty id is falsy
\* and uuid stands for what crypto.randomUUID() returns at this call
AggregateId(id, uuid) == IF id = NoString THEN uuid ELSE id

\* a null reference (getById found nothing, or nothing held yet)
NoAgg == NewAggregate(NoString)

IsNull(a) == a.id = NoString

\* mutant: the created user counts as verified at once
whenUserCreatedVerified(a, event) ==
    [a EXCEPT !.email = EmailCreate(event.email),
              !.userName = SplitFullName(event.fullName),
              !.status = "pending",
              !.isEmailVerified = TRUE,
              !.createdAt = event.occurredAt]

\* UserEventSourcedAggregate.when and its five whenUser... handlers
whenUserCreated(a, event) ==
    [a EXCEPT !.email = EmailCreate(event.email),
              !.userName = SplitFullName(event.fullName),
              !.status = "pending",
              !.isEmailVerified = FALSE,
              !.createdAt = event.occurredAt]

whenUserActivated(a, event) == [a EXCEPT !.status = "active"]

whenUserBlocked(a, event) == [a EXCEPT !.status = "blocked"]

whenUserEmailVerified(a, event) == [a EXCEPT !.isEmailVerified = TRUE]

\* mutant: the verified flag survives the change of email
whenUserEmailChangedKeepsFlag(a, event) == [a EXCEPT !.email = EmailCreate(event.newEmail)]

whenUserEmailChanged(a, event) ==
    [a EXCEPT !.email = EmailCreate(event.newEmail), !.isEmailVerified = FALSE]

\* mutant: an event of an unknown type blocks the user
whenUnknownBlocks(a, event) ==
    CASE event.type = "UserCreatedEvent" -> whenUserCreated(a, event)
      [] event.type = "UserActivatedEvent" -> whenUserActivated(a, event)
      [] event.type = "UserBlockedEvent" -> whenUserBlocked(a, event)
      [] event.type = "UserEmailVerifiedEvent" -> whenUserEmailVerified(a, event)
      [] event.type = "UserEmailChangedEvent" -> whenUserEmailChanged(a, event)
      [] OTHER -> whenUserBlocked(a, event)

when(a, event) ==
    CASE event.type = "UserCreatedEvent" -> whenUserCreated(a, event)
      [] event.type = "UserActivatedEvent" -> whenUserActivated(a, event)
      [] event.type = "UserBlockedEvent" -> whenUserBlocked(a, event)
      [] event.type = "UserEmailVerifiedEvent" -> whenUserEmailVerified(a, event)
      [] event.type = "UserEmailChangedEvent" -> whenUserEmailChanged(a, event)
      [] OTHER -> a

\* this._version++
NextVersion(version) == version + 1

\* mutant: only a new event advances the version
applyEventNewOnly(a, event, isNew) ==
    LET a1 == when(a, event)
        v  == IF isNew THEN NextVersion(a1.version) ELSE a1.version
    IN  [a1 EXCEPT !.version = v,
                   !.uncommitted = IF isNew
                                   THEN Append(@, [event EXCEPT !.aggregateVersion = v])
                                   ELSE @]

\* applyEvent(event, isNew)
applyEvent(a, event, isNew) ==
    LET a1 == when(a, event)
        v  == NextVersion(a1.version)
    IN  [a1 EXCEPT !.version = v,
                   !.uncommitted = IF isNew
                                   THEN Append(@, [event EXCEPT !.aggregateVersion = v])
                                   ELSE @]

\* events.forEach(event => aggregate.applyEvent(event, false))
RECURSIVE ApplyHistory(_, _)
ApplyHistory(a, evs) ==
    IF evs = <<>> THEN a ELSE ApplyHistory(applyEvent(a, Head(evs), FALSE), Tail(evs))

\* if (events.length === 0) throw new Error(...)
EmptyHistory(evs) == Len(evs) = 0

\* what a call that threw an Error has in place of the aggregate it would return
Thrown == [NoAgg EXCEPT !.status = "Error"]

IsThrown(a) == a = Thrown

\* fromHistory(events)
fromHistory(evs, uuid) ==
    IF EmptyHistory(evs) THEN Thrown
    ELSE ApplyHistory(NewAggregate(AggregateId(evs[1].aggregateId, uuid)), evs)

\* mutant: only the oldest event leaves the buffer
markEventsAsCommittedOne(a) ==
    [a EXCEPT !.uncommitted = IF @ = <<>> THEN <<>> ELSE Tail(@)]

\* mutant: the buffer is not cleared
markEventsAsCommittedKeeps(a) == a

\* markEventsAsCommitted()
markEventsAsCommitted(a) == [a EXCEPT !.uncommitted = <<>>]

\* ------------------------------------------------------------------ snapshots
NoIso == <<"undefined", NoDate>>

\* getSnapshotData(): lastLoginAt?.toISOString() is undefined without a login
getSnapshotData(a) ==
    [email |-> a.email, firstName |-> a.userName.firstName, lastName |-> a.userName.lastName,
     status |-> a.status, isEmailVerified |-> a.isEmailVerified,
     createdAt |-> ToISOString(a.createdAt),
     lastLoginAt |-> IF a.lastLoginAt = NoDate THEN NoIso ELSE ToISOString(a.lastLoginAt)]

\* createSnapshot() of the aggregate base class
createSnapshot(a, t) ==
    [aggregateId |-> a.id, aggregateType |-> "UserEventSourcedAggregate",
     version |-> a.version, data |-> getSnapshotData(a), timestamp |-> t]

\* applySnapshotData(data); UserName.create trims the two parts it is given
applySnapshotData(a, data) ==
    [a EXCEPT !.email = EmailCreate(data.email),
              !.userName = [firstName |-> data.firstName, lastName |-> data.lastName],
              !.status = data.status,
              !.isEmailVerified = data.isEmailVerified,
              !.createdAt = NewDate(data.createdAt),
              !.lastLoginAt = IF data.lastLoginAt = NoIso THEN NoDate
                              ELSE NewDate(data.lastLoginAt)]

\* fromSnapshot(snapshot)
fromSnapshot(snapshot, uuid) ==
    applySnapshotData([NewAggregate(AggregateId(snapshot.aggregateId, uuid))
                          EXCEPT !.version = snapshot.version],
                      snapshot.data)

\* ------------------------------------------------- UserEventSourcedAggregate
CommandResult(a, outcome) == [agg |-> a, result |-> Returned(outcome)]

\* create(email, userName): a new id, one UserCreatedEvent applied as new
create(id, email, userName, t) ==
    applyEvent(NewAggregate(id),
               UserCreatedEvent(id, email, FullNameOf(userName.firstName, userName.lastName), t),
               TRUE)

\* this._email.value throws a TypeError while _email is undefined
HasEmail(a) == a.email # NoString

\* mutant: the event is applied before the rule is checked
activateThenThrow(a, t) ==
    IF a.status = "blocked"
    THEN CommandResult(applyEvent(a, UserActivatedEvent(a.id, a.email, t), TRUE), "Error")
    ELSE IF a.status = "active" THEN CommandResult(a, "ok")
    ELSE IF ~HasEmail(a) THEN CommandResult(a, "TypeError")
    ELSE CommandResult(applyEvent(a, UserActivatedEvent(a.id, a.email, t), TRUE), "ok")

\* mutant: a blocked aggregate is activated like any other
activateBlocked(a, t) ==
    IF a.status = "active" THEN CommandResult(a, "ok")
    ELSE IF ~HasEmail(a) THEN CommandResult(a, "TypeError")
    ELSE CommandResult(applyEvent(a, UserActivatedEvent(a.id, a.email, t), TRUE), "ok")

\* mutant: an aggregate that is already active is activated again
activateAgain(a, t) ==
    IF a.status = "blocked" THEN CommandResult(a, "Error")
    ELSE IF ~HasEmail(a) THEN CommandResult(a, "TypeError")
    ELSE CommandResult(applyEvent(a, UserActivatedEvent(a.id, a.email, t), TRUE), "ok")

activate(a, t) ==
    IF a.status = "blocked" THEN CommandResult(a, "Error")
    ELSE IF a.status = "active" THEN CommandResult(a, "ok")
    ELSE IF ~HasEmail(a) THEN CommandResult(a, "TypeError")
    ELSE CommandResult(applyEvent(a, UserActivatedEvent(a.id, a.email, t), TRUE), "ok")

block(a, reason, t) ==
    IF a.status = "blocked" THEN CommandResult(a, "ok")
    ELSE IF ~HasEmail(a) THEN CommandResult(a, "TypeError")
    ELSE CommandResult(applyEvent(a, UserBlockedEvent(a.id, a.email, reason, t), TRUE), "ok")

\* mutant: a verified email is verified again
verifyEmailAgain(a, t) ==
    IF ~HasEmail(a) THEN CommandResult(a, "TypeError")
    ELSE CommandResult(applyEvent(a, UserEmailVerifiedEvent(a.id, a.email, t), TRUE), "ok")

verifyEmail(a, t) ==
    IF a.isEmailVerified THEN CommandResult(a, "ok")
    ELSE IF ~HasEmail(a) THEN CommandResult(a, "TypeError")
    ELSE CommandResult(applyEvent(a, UserEmailVerifiedEvent(a.id, a.email, t), TRUE), "ok")

changeEmail(a, newEmail, t) ==
    IF ~HasEmail(a) THEN CommandResult(a, "TypeError")
    ELSE IF a.email = newEmail THEN CommandResult(a, "ok")
    ELSE CommandResult(applyEvent(a, UserEmailChangedEvent(a.id, a.email, newEmail, t), TRUE),
                       "ok")

recordLogin(a, t) == CommandResult([a EXCEPT !.lastLoginAt = t], "ok")

\* ------------------------------------------------ UserEventSourcedRepository
\* deserializeEvents: one stored event back to a domain event. The event classes
\* are constructed anew, so occurredAt is new Date() at the time t of the call;
\* an unknown type gives a plain object that keeps the stored occurredAt.
deserializeEvent(storedEvent, t) ==
    LET eventType == storedEvent.metadata.eventType
        eventData == storedEvent.data
    IN  CASE eventType = "UserCreatedEvent" ->
               UserCreatedEvent(eventData.aggregateId, eventData.email, eventData.fullName, t)
          [] eventType = "UserActivatedEvent" ->
               UserActivatedEvent(eventData.aggregateId, eventData.email, t)
          [] eventType = "UserBlockedEvent" ->
               UserBlockedEvent(eventData.aggregateId, eventData.email, eventData.reason, t)
          [] eventType = "UserEmailVerifiedEvent" ->
               UserEmailVerifiedEvent(eventData.aggregateId, eventData.email, t)
          [] eventType = "UserEmailChangedEvent" ->
               UserEmailChangedEvent(eventData.aggregateId, eventData.oldEmail,
                                     eventData.newEmail, t)
          [] OTHER ->
               DomainEvent("Object", eventData.aggregateId, NewDate(eventData.occurredAt),
                           NoString, NoName, NoString, NoString, NoString)

deserializeEvents(storedEvents, t) ==
    [i \in 1..Len(storedEvents) |-> deserializeEvent(storedEvents[i], t)]

\* getById up to the read of the snapshot: the aggregate built from it and the
\* version to read events from (no snapshot: no aggregate yet, fromVersion 0)
getByIdSnapshot(snaps, id, uuid) ==
    IF id \in DOMAIN snaps
    THEN [aggregate |-> fromSnapshot(snaps[id], uuid), fromVersion |-> snaps[id].version]
    ELSE [aggregate |-> NoAgg, fromVersion |-> 0]

\* mutant: an empty read without a snapshot is not taken as "not found"
NotFoundNever(storedEvents, fromVersion) == FALSE

\* if (storedEvents.length === 0 && fromVersion === 0) return null
NotFound(storedEvents, fromVersion) == Len(storedEvents) = 0 /\ fromVersion = 0

\* getById from the read of the events on: null, the snapshot's aggregate, the
\* snapshot's aggregate with the trailing events applied, or fromHistory
getByIdEvents(es, id, aggregate, fromVersion, t, uuid) ==
    LET storedEvents == getEventsForAggregate(es, id, fromVersion)
        domainEvents == deserializeEvents(storedEvents, t)
    IN  IF NotFound(storedEvents, fromVersion) THEN NoAgg
        ELSE IF Len(storedEvents) = 0 /\ fromVersion > 0 THEN aggregate
        ELSE IF fromVersion > 0 THEN ApplyHistory(aggregate, domainEvents)
        ELSE fromHistory(domainEvents, uuid)

\* getById(id) with nothing interleaved between its two reads
getById(es, snaps, id, t, uuid) ==
    LET s == getByIdSnapshot(snaps, id, uuid)
    IN  getByIdEvents(es, id, s.aggregate, s.fromVersion, t, uuid)

\* replayFromHistory(id)
replayFromHistory(es, id, t, uuid) ==
    LET storedEvents == getEventsForAggregate(es, id, 0)
    IN  IF Len(storedEvents) = 0 THEN NoAgg
        ELSE fromHistory(deserializeEvents(storedEvents, t), uuid)

\* mutant: the version of the first event of the stream
getVersionOfFirst(es, id) ==
    LET evs == getAllEventsForAggregate(es, id)
    IN  IF Len(evs) > 0 THEN evs[1].metadata.aggregateVersion ELSE 0

\* getVersion(id): the aggregateVersion of the last stored event, or 0
getVersion(es, id) ==
    LET evs == getAllEventsForAggregate(es, id)
    IN  IF Len(evs) > 0 THEN evs[Len(evs)].metadata.aggregateVersion ELSE 0

\* exists(id)
exists(es, id) == Len(getAllEventsForAggregate(es, id)) > 0

\* mutant: the length of the buffer is presented
ExpectedVersionOfBuffer(a) == Len(a.uncommitted)

\* mutant: the version after the events is presented
ExpectedVersionAfter(a) == a.version

\* const expectedVersion = aggregate.version - uncommittedEvents.length
ExpectedVersion(a) == a.version - Len(a.uncommitted)

\* mutant: the early return is missing
NothingToSaveNever(uncommittedEvents) == FALSE

\* if (uncommittedEvents.length === 0) return
NothingToSave(uncommittedEvents) == Len(uncommittedEvents) = 0

\* mutant: the catch block throws an error of its own
RethrowAsNew(error) == Returned("Error")

\* catch (error) { console.error(...); throw error }
Rethrow(error) == error

\* mutant: no save takes a snapshot
SnapshotDueNever(a) == FALSE

\* if (this.snapshotStore && aggregate.version % 10 === 0)
SnapshotDue(a) == a.version % SnapshotInterval = 0

\* SnapshotStore.saveSnapshot / getSnapshot: the latest snapshot per aggregate id
saveSnapshot(snaps, snapshot) == MapSet(snaps, snapshot.aggregateId, snapshot)

\* -------------------------------------------------------------- the callers
\* Each caller holds at most one aggregate reference (agg), is idle or between
\* two awaits of a repository call (pc, with the call's locals in local), and
\* keeps what its last call returned or threw (result). loadedVersion is a
\* history variable: the version the caller's aggregate had when it was created
\* (0), loaded, or last saved with success.
NoLocal ==
    [id |-> NoString, events |-> <<>>, expectedVersion |-> 0,
     aggregate |-> NoAgg, fromVersion |-> 0, timestamp |-> NoDate]

Outcome(op, r) ==
    [op |-> op, outcome |-> r.outcome, aggregateId |-> r.aggregateId,
     expectedVersion |-> r.expectedVersion, actualVersion |-> r.actualVersion,
     value |-> r.value]

EmptyMap == [x \in {} |-> 0]

\* what a caller has of a load: how the call ended, and the aggregate it holds
\* afterwards (a call that threw assigns nothing)
LoadOutcome(a) == IF IsThrown(a) THEN "Error" ELSE IF IsNull(a) THEN "null" ELSE "ok"

Held(old, a) == IF IsThrown(a) THEN old ELSE a

Init ==
    /\ events = EmptyMap
    /\ versions = EmptyMap
    /\ snapshots = EmptyMap
    /\ now = 0
    /\ agg = [p \in Procs |-> NoAgg]
    /\ pc = [p \in Procs |-> "idle"]
    /\ local = [p \in Procs |-> NoLocal]
    /\ result = [p \in Procs |-> Outcome("none", Returned("none"))]
    /\ loadedVersion = [p \in Procs |-> 0]

\* new Date() / Date.now(): the clock moves on between any two steps
Tick ==
    /\ now < MaxClock
    /\ now' = now + 1
    /\ UNCHANGED <<events, versions, snapshots, agg, pc, local, result, loadedVersion>>

\* crypto.randomUUID(): an id that nothing in the program holds yet
FreshIdsOf(ids) ==
    ids \ ((DOMAIN events) \cup (DOMAIN snapshots)
           \cup {agg[q].id : q \in Procs} \cup {local[q].id : q \in Procs})

FreshIds == FreshIdsOf(Ids)

\* UserEventSourcedAggregate.create(email, userName), the email made by Email.create
CreateOf(p, ids, emails) ==
    /\ pc[p] = "idle"
    /\ \E id \in FreshIdsOf(ids), email \in emails, userName \in Names :
          agg' = [agg EXCEPT ![p] = create(id, EmailCreate(email), userName, now)]
    /\ result' = [result EXCEPT ![p] = Outcome("create", Returned("ok"))]
    /\ loadedVersion' = [loadedVersion EXCEPT ![p] = 0]
    /\ UNCHANGED <<events, versions, snapshots, now, pc, local>>

Create(p, emails) == CreateOf(p, Ids, emails)

\* an aggregate command of the caller on the aggregate it holds
Command(p, op, r) ==
    /\ agg' = [agg EXCEPT ![p] = r.agg]
    /\ result' = [result EXCEPT ![p] = Outcome(op, r.result)]
    /\ UNCHANGED <<events, versions, snapshots, now, pc, local, loadedVersion>>

CanCommandUpTo(p, max) == pc[p] = "idle" /\ ~IsNull(agg[p]) /\ agg[p].version < max

CanCommand(p) == CanCommandUpTo(p, MaxVersion)

ActivateUpTo(p, max) ==
    CanCommandUpTo(p, max) /\ Command(p, "activate", activate(agg[p], now))

Activate(p) == ActivateUpTo(p, MaxVersion)

BlockUpTo(p, max) ==
    /\ CanCommandUpTo(p, max)
    /\ \E reason \in Reasons : Command(p, "block", block(agg[p], reason, now))

Block(p) == BlockUpTo(p, MaxVersion)

VerifyEmailUpTo(p, max) ==
    CanCommandUpTo(p, max) /\ Command(p, "verifyEmail", verifyEmail(agg[p], now))

VerifyEmail(p) == VerifyEmailUpTo(p, MaxVersion)

\* changeEmail takes an Email, which only Email.create makes
ChangeEmailUpTo(p, max) ==
    /\ CanCommandUpTo(p, max)
    /\ \E newEmail \in RawEmails :
          Command(p, "changeEmail", changeEmail(agg[p], EmailCreate(newEmail), now))

ChangeEmail(p) == ChangeEmailUpTo(p, MaxVersion)

RecordLogin(p) == CanCommand(p) /\ Command(p, "recordLogin", recordLogin(agg[p], now))

\* repository.getById(id) up to its first await: the snapshot store is read
GetByIdStartOf(p, ids) ==
    /\ pc[p] = "idle"
    /\ \E id \in ids, uuid \in Uuids :
          LET s == getByIdSnapshot(snapshots, id, uuid)
          IN  local' = [local EXCEPT ![p] = [NoLocal EXCEPT !.id = id,
                                                           !.aggregate = s.aggregate,
                                                           !.fromVersion = s.fromVersion]]
    /\ pc' = [pc EXCEPT ![p] = "getById"]
    /\ UNCHANGED <<events, versions, snapshots, now, agg, result, loadedVersion>>

GetByIdStart(p) == GetByIdStartOf(p, Ids)

\* repository.getById(id) from the read of the events on; what follows the read
\* touches nothing shared but the clock
GetByIdFinish(p) ==
    /\ pc[p] = "getById"
    /\ \E uuid \in Uuids :
       LET a == getByIdEvents(events, local[p].id, local[p].aggregate,
                              local[p].fromVersion, now, uuid)
       IN  /\ agg' = [agg EXCEPT ![p] = Held(@, a)]
           /\ loadedVersion' = [loadedVersion EXCEPT ![p] = Held(agg[p], a).version]
           /\ result' = [result EXCEPT ![p] = Outcome("getById", Returned(LoadOutcome(a)))]
    /\ pc' = [pc EXCEPT ![p] = "idle"]
    /\ local' = [local EXCEPT ![p] = NoLocal]
    /\ UNCHANGED <<events, versions, snapshots, now>>

\* repository.replayFromHistory(id)
ReplayFromHistory(p) ==
    /\ pc[p] = "idle"
    /\ \E id \in Ids, uuid \in Uuids :
          LET a == replayFromHistory(events, id, now, uuid)
          IN  /\ agg' = [agg EXCEPT ![p] = Held(@, a)]
              /\ loadedVersion' = [loadedVersion EXCEPT ![p] = Held(agg[p], a).version]
              /\ result' = [result EXCEPT ![p] =
                    Outcome("replayFromHistory", Returned(LoadOutcome(a)))]
    /\ UNCHANGED <<events, versions, snapshots, now, pc, local>>

\* repository.save(aggregate) up to the await of eventStore.saveEvents: nothing to
\* save, a ConcurrencyError (logged and thrown again), or the events appended
Save(p) ==
    /\ pc[p] = "idle"
    /\ ~IsNull(agg[p])
    /\ LET uncommittedEvents == agg[p].uncommitted
           r == saveEvents(events, versions, agg[p].id, uncommittedEvents,
                           ExpectedVersion(agg[p]))
       IN  IF NothingToSave(uncommittedEvents)
           THEN /\ result' = [result EXCEPT ![p] = Outcome("save", Returned("noop"))]
                /\ UNCHANGED <<events, versions, pc, local>>
           ELSE /\ events' = r.events
                /\ versions' = r.versions
                /\ IF r.result.outcome = "ok"
                   THEN /\ pc' = [pc EXCEPT ![p] = "save"]
                        /\ local' = [local EXCEPT ![p] =
                              [NoLocal EXCEPT !.id = agg[p].id,
                                              !.events = uncommittedEvents,
                                              !.expectedVersion = ExpectedVersion(agg[p])]]
                        /\ result' = [result EXCEPT ![p] = Outcome("save", Returned("pending"))]
                   ELSE /\ result' = [result EXCEPT ![p] = Outcome("save", Rethrow(r.result))]
                        /\ UNCHANGED <<pc, local>>
    /\ UNCHANGED <<snapshots, now, agg, loadedVersion>>

\* repository.save(aggregate) after the append: markEventsAsCommitted, and a
\* snapshot when the version is a multiple of the interval
SaveCommit(p) ==
    /\ pc[p] = "save"
    /\ agg' = [agg EXCEPT ![p] = markEventsAsCommitted(@)]
    /\ snapshots' = IF SnapshotDue(agg[p])
                    THEN saveSnapshot(snapshots, createSnapshot(agg'[p], now))
                    ELSE snapshots
    /\ pc' = [pc EXCEPT ![p] = "idle"]
    /\ local' = [local EXCEPT ![p] = NoLocal]
    /\ result' = [result EXCEPT ![p] = Outcome("save", Returned("ok"))]
    /\ loadedVersion' = [loadedVersion EXCEPT ![p] = agg[p].version]
    /\ UNCHANGED <<events, versions, now>>

\* what a snapshot store that fails rejects saveSnapshot with
SnapshotStoreError == Returned("Error")

\* repository.save(aggregate) after the append, with a snapshot store whose
\* saveSnapshot rejects: the events are marked as committed, createSnapshot
\* logs the error and throws it again, and so does the catch block of save
SaveCommitSnapshotFails(p) ==
    /\ pc[p] = "save"
    /\ SnapshotDue(agg[p])
    /\ agg' = [agg EXCEPT ![p] = markEventsAsCommitted(@)]
    /\ pc' = [pc EXCEPT ![p] = "idle"]
    /\ local' = [local EXCEPT ![p] = NoLocal]
    /\ result' = [result EXCEPT ![p] = Outcome("save", Rethrow(Rethrow(SnapshotStoreError)))]
    /\ loadedVersion' = [loadedVersion EXCEPT ![p] = agg[p].version]
    /\ UNCHANGED <<events, versions, snapshots, now>>

\* repository.createSnapshot(aggregate)
CreateSnapshot(p) ==
    /\ pc[p] = "idle"
    /\ ~IsNull(agg[p])
    /\ HasEmail(agg[p])
    /\ snapshots' = saveSnapshot(snapshots, createSnapshot(agg[p], now))
    /\ result' = [result EXCEPT ![p] = Outcome("createSnapshot", Returned("ok"))]
    /\ UNCHANGED <<events, versions, now, agg, pc, local, loadedVersion>>

Next ==
    \/ \E p \in Procs :
          \/ Create(p, {"a@x.com"})
          \/ Activate(p)
          \/ Block(p)
          \/ VerifyEmail(p)
          \/ GetByIdStart(p)
          \/ GetByIdFinish(p)
          \/ ReplayFromHistory(p)
          \/ Save(p)
          \/ SaveCommit(p)

Spec == Init /\ [][Next]_vars

\* one caller, every command, the clock and snapshots taken by hand; the
\* commands stop at a shorter history than in Spec
NextSnap ==
    \/ Tick
    \/ \E p \in {1} :
          \/ Create(p, {"A@X.com"})
          \/ /\ agg[p].version < MaxSnapVersion
             /\ \/ Activate(p)
                \/ Block(p)
                \/ VerifyEmail(p)
                \/ ChangeEmail(p)
                \/ RecordLogin(p)
          \/ GetByIdStart(p)
          \/ GetByIdFinish(p)
          \/ ReplayFromHistory(p)
          \/ Save(p)
          \/ SaveCommit(p)
          \/ CreateSnapshot(p)

SpecSnap == Init /\ [][NextSnap]_vars

\* ------------------------------------------- callers of the event store alone
\* The events a direct caller of the store hands to saveEvents
StoreEventPool(id) ==
    {UserActivatedEvent(id, "a@x.com", now), UserBlockedEvent(id, "a@x.com", "reason", now)}

StoreBatches(id) == UNION {[1..n -> StoreEventPool(id)] : n \in 0..2}

\* a caller fixes the arguments of eventStore.saveEvents(id, events, expectedVersion)
StoreCall(p) ==
    /\ pc[p] = "idle"
    /\ \E id \in Ids, expectedVersion \in 0..MaxStoreVersion :
          \E evs \in StoreBatches(id) :
             /\ expectedVersion + Len(evs) <= MaxStoreVersion
             /\ local' = [local EXCEPT ![p] = [NoLocal EXCEPT !.id = id,
                                                              !.events = evs,
                                                              !.expectedVersion = expectedVersion]]
    /\ pc' = [pc EXCEPT ![p] = "saveEvents"]
    /\ result' = [result EXCEPT ![p] = Outcome("saveEvents", Returned("pending"))]
    /\ UNCHANGED <<events, versions, snapshots, now, agg, loadedVersion>>

\* InMemoryEventStore.saveEvents runs, as one step
StoreSaveEvents(p) ==
    /\ pc[p] = "saveEvents"
    /\ LET r == saveEvents(events, versions, local[p].id, local[p].events,
                           local[p].expectedVersion)
       IN  /\ events' = r.events
           /\ versions' = r.versions
           /\ result' = [result EXCEPT ![p] = Outcome("saveEvents", r.result)]
    /\ pc' = [pc EXCEPT ![p] = "idle"]
    /\ UNCHANGED <<snapshots, now, agg, local, loadedVersion>>

NextStore == \E p \in Procs : StoreCall(p) \/ StoreSaveEvents(p)

SpecStore == Init /\ [][NextStore]_vars

\* --------------------------------------------------- readers of the event store
\* a caller runs eventStore.getEventsForAggregate(id, fromVersion) and keeps
\* what it returned
GetEventsForAggregate(p) ==
    /\ pc[p] = "idle"
    /\ \E id \in Ids, fromVersion \in 0..MaxStoreVersion :
          local' = [local EXCEPT ![p] =
                      [NoLocal EXCEPT !.id = id,
                                      !.fromVersion = fromVersion,
                                      !.events = getEventsForAggregate(events, id, fromVersion)]]
    /\ result' = [result EXCEPT ![p] = Outcome("getEventsForAggregate", Returned("ok"))]
    /\ UNCHANGED <<events, versions, snapshots, now, agg, pc, loadedVersion>>

\* the same with fromVersion omitted
GetAllEventsForAggregate(p) ==
    /\ pc[p] = "idle"
    /\ \E id \in Ids :
          local' = [local EXCEPT ![p] =
                      [NoLocal EXCEPT !.id = id,
                                      !.events = getAllEventsForAggregate(events, id)]]
    /\ result' = [result EXCEPT ![p] = Outcome("getAllEventsForAggregate", Returned("ok"))]
    /\ UNCHANGED <<events, versions, snapshots, now, agg, pc, loadedVersion>>

\* one writer of the store, and readers
NextRead ==
    \/ \E p \in {1} : StoreCall(p) \/ StoreSaveEvents(p)
    \/ \E p \in Procs : GetEventsForAggregate(p) \/ GetAllEventsForAggregate(p)

SpecRead == Init /\ [][NextRead]_vars

\* ------------------------------------------------ the store with its clear()
\* InMemoryEventStore.clear(), run by caller p
Clear(p) ==
    /\ pc[p] = "idle"
    /\ events' = clear(events, versions).events
    /\ versions' = clear(events, versions).versions
    /\ result' = [result EXCEPT ![p] = Outcome("clear", Returned("ok"))]
    /\ UNCHANGED <<snapshots, now, agg, pc, local, loadedVersion>>

NextLog == \E p \in Procs : StoreCall(p) \/ StoreSaveEvents(p) \/ Clear(p)

SpecLog == Init /\ [][NextLog]_vars

\* ------------------------------------------------ callers on two aggregates
\* two callers that create, load, block and save two aggregates, over short
\* histories
NextIso ==
    \E p \in Procs :
       \/ CreateOf(p, TwoIds, {"a@x.com"})
       \/ agg[p].version < MaxIsoVersion /\ Block(p)
       \/ GetByIdStartOf(p, TwoIds)
       \/ GetByIdFinish(p)
       \/ Save(p)
       \/ SaveCommit(p)

SpecIso == Init /\ [][NextIso]_vars

\* ------------------------------------------------- one user, every command
\* one caller that creates, commands, saves and loads one aggregate
NextUser ==
    \E p \in {1} :
       \/ Create(p, {"A@X.com"})
       \/ Activate(p)
       \/ Block(p)
       \/ VerifyEmail(p)
       \/ ChangeEmail(p)
       \/ GetByIdStart(p)
       \/ GetByIdFinish(p)
       \/ Save(p)
       \/ SaveCommit(p)

SpecUser == Init /\ [][NextUser]_vars

\* ----------------------------------------------- callers of fromHistory alone
\* The events a history handed to fromHistory is made of; an event's aggregateId
\* is whatever string its constructor was given, the empty one included
HistoryEventPool ==
    UNION {{UserCreatedEvent(id, "a@x.com", <<"Mary", "Ann", "Smith">>, 0),
            UserEmailVerifiedEvent(id, "a@x.com", 0),
            UserActivatedEvent(id, "a@x.com", 0),
            UserBlockedEvent(id, "a@x.com", "reason", 0),
            UserEmailChangedEvent(id, "a@x.com", "b@x.com", 0)} : id \in Ids \cup {NoString}}

Histories == UNION {[1..n -> HistoryEventPool] : n \in 1..MaxHistory}

\* every caller holds the same non-empty history
InitReplay ==
    /\ events = EmptyMap
    /\ versions = EmptyMap
    /\ snapshots = EmptyMap
    /\ now = 0
    /\ agg = [p \in Procs |-> NoAgg]
    /\ pc = [p \in Procs |-> "idle"]
    /\ \E E \in Histories : local = [p \in Procs |-> [NoLocal EXCEPT !.events = E]]
    /\ result = [p \in Procs |-> Outcome("none", Returned("none"))]
    /\ loadedVersion = [p \in Procs |-> 0]

\* UserEventSourcedAggregate.fromHistory(events), run by caller p
FromHistory(p) ==
    /\ pc[p] = "idle"
    /\ \E uuid \in Uuids :
          LET a == fromHistory(local[p].events, uuid)
          IN  /\ agg' = [agg EXCEPT ![p] = Held(@, a)]
              /\ result' = [result EXCEPT ![p] = Outcome("fromHistory", Returned(LoadOutcome(a)))]
    /\ loadedVersion' = [loadedVersion EXCEPT ![p] = agg'[p].version]
    /\ UNCHANGED <<events, versions, snapshots, now, pc, local>>

NextReplay == \E p \in Procs : FromHistory(p)

SpecReplay == InitReplay /\ [][NextReplay]_vars

\* ------------------------------------------------- callers that load and save
\* creates, saves and snapshots by hand, with every way of loading; a caller
\* that is between calls holds no events and runs fromHistory on none
NextLoad ==
    \E p \in Procs :
       \/ Create(p, {"a@x.com"})
       \/ CreateSnapshot(p)
       \/ Save(p)
       \/ SaveCommit(p)
       \/ GetByIdStart(p)
       \/ GetByIdFinish(p)
       \/ ReplayFromHistory(p)
       \/ FromHistory(p)

SpecLoad == Init /\ [][NextLoad]_vars

\* ------------------------------------------------ a writer and a replayer
\* caller 1 creates, commands and saves one aggregate; caller 2 replays its
\* stream with replayFromHistory
NextLive ==
    \/ \E p \in {1} :
          \/ Create(p, {"A@X.com"})
          \/ Activate(p)
          \/ Block(p)
          \/ VerifyEmail(p)
          \/ ChangeEmail(p)
          \/ Save(p)
          \/ SaveCommit(p)
    \/ \E p \in {2} : ReplayFromHistory(p)

SpecLive == Init /\ [][NextLive]_vars

\* ------------------------------------------ one aggregate over a long history
\* one caller that creates an aggregate, changes its email again and again,
\* saves at any point and loads it, up to a history longer than the snapshot
\* interval
NextRun ==
    \E p \in {1} :
       \/ Create(p, {"a@x.com"})
       \/ ChangeEmailUpTo(p, MaxRunVersion)
       \/ Save(p)
       \/ SaveCommit(p)
       \/ GetByIdStart(p)
       \/ GetByIdFinish(p)

SpecRun == Init /\ [][NextRun]_vars

\* the same with a snapshot store whose saveSnapshot may reject
NextRunFailing ==
    \/ NextRun
    \/ \E p \in {1} : SaveCommitSnapshotFails(p)

SpecRunFailing == Init /\ [][NextRunFailing]_vars

\* ------------------------------------------- callers that ask for the version
\* repository.getVersion(id), run by caller p
GetVersion(p) ==
    /\ pc[p] = "idle"
    /\ \E id \in Ids :
          /\ local' = [local EXCEPT ![p] = [NoLocal EXCEPT !.id = id]]
          /\ result' = [result EXCEPT ![p] =
                Outcome("getVersion", ReturnedValue("ok", getVersion(events, id)))]
    /\ UNCHANGED <<events, versions, snapshots, now, agg, pc, loadedVersion>>

\* repository.exists(id), run by caller p
Exists(p) ==
    /\ pc[p] = "idle"
    /\ \E id \in Ids :
          /\ local' = [local EXCEPT ![p] = [NoLocal EXCEPT !.id = id]]
          /\ result' = [result EXCEPT ![p] =
                Outcome("exists", Returned(IF exists(events, id) THEN "true" ELSE "false"))]
    /\ UNCHANGED <<events, versions, snapshots, now, agg, pc, loadedVersion>>

\* caller 1 writes the store and clears it, caller 2 asks the repository for
\* the version and the existence of the stream
NextProbe ==
    \/ \E p \in {1} : StoreCall(p) \/ StoreSaveEvents(p) \/ Clear(p)
    \/ \E p \in {2} : GetVersion(p) \/ Exists(p)

SpecProbe == Init /\ [][NextProbe]_vars

\* -------------------------------------------- a writer and a caller that retries
\* a caller loads an aggregate it does not hold while its stream is new, and
\* loads again only when its save has failed with a ConcurrencyError
MayLoad(p) ==
    \/ IsNull(agg[p]) /\ \A id \in Ids : CurrentVersion(versions, id) <= 1
    \/ result[p].op = "save" /\ result[p].outcome = "ConcurrencyError"

\* caller 1 creates, verifies, blocks and saves; caller 2 loads, activates or
\* blocks, saves, and reloads after a conflict
NextRetry ==
    \/ \E p \in {1} :
          \/ Create(p, {"a@x.com"})
          \/ VerifyEmail(p)
          \/ Block(p)
          \/ Save(p)
          \/ SaveCommit(p)
    \/ \E p \in {2} :
          \/ MayLoad(p) /\ GetByIdStart(p)
          \/ GetByIdFinish(p)
          \/ Activate(p)
          \/ Block(p)
          \/ Save(p)
          \/ SaveCommit(p)

SpecRetry == Init /\ [][NextRetry]_vars

\* ------------------------------------------ one instance, saved again and again
\* one caller that creates an aggregate and goes on commanding and saving the
\* same instance, never loading it
NextLife ==
    \E p \in {1} :
       \/ Create(p, {"a@x.com"})
       \/ VerifyEmailUpTo(p, MaxLifeVersion)
       \/ ActivateUpTo(p, MaxLifeVersion)
       \/ ChangeEmailUpTo(p, MaxLifeVersion)
       \/ BlockUpTo(p, MaxLifeVersion)
       \/ Save(p)
       \/ SaveCommit(p)

SpecLife == Init /\ [][NextLife]_vars

\* ------------------------------------------------ callers of applyEvent alone
\* the events handed to applyEvent: those of a history, and one of a type that
\* the aggregate has no handler for
ApplyEventPool ==
    HistoryEventPool
      \cup {DomainEvent("UserLoggedInEvent", id, 0, NoString, NoName, NoString, NoString,
                        NoString) : id \in Ids}

\* every caller holds a brand-new aggregate: new UserEventSourcedAggregate(id)
InitApply ==
    /\ events = EmptyMap
    /\ versions = EmptyMap
    /\ snapshots = EmptyMap
    /\ now = 0
    /\ \E id \in TwoIds : agg = [p \in Procs |-> NewAggregate(id)]
    /\ pc = [p \in Procs |-> "idle"]
    /\ local = [p \in Procs |-> NoLocal]
    /\ result = [p \in Procs |-> Outcome("none", Returned("none"))]
    /\ loadedVersion = [p \in Procs |-> 0]

\* aggregate.applyEvent(event, isNew), run by caller p on the aggregate it holds
ApplyEvent(p, isNew) ==
    /\ pc[p] = "idle"
    /\ agg[p].version < MaxApplyVersion
    /\ \E event \in ApplyEventPool :
          /\ agg' = [agg EXCEPT ![p] = applyEvent(@, event, isNew)]
          /\ local' = [local EXCEPT ![p] = [NoLocal EXCEPT !.events = <<event>>]]
    /\ result' = [result EXCEPT ![p] =
          Outcome(IF isNew THEN "applyEventNew" ELSE "applyEventHistorical", Returned("ok"))]
    /\ UNCHANGED <<events, versions, snapshots, now, pc, loadedVersion>>

NextApply == \E p \in {1} : \E isNew \in BOOLEAN : ApplyEvent(p, isNew)

SpecApply == InitApply /\ [][NextApply]_vars

\* ------------------------------------ a stream with events of an unknown type
\* an event of a class that the repository and the aggregate do not know
UnknownEvent(id) ==
    DomainEvent("UserLoggedInEvent", id, now, NoString, NoName, NoString, NoString, NoString)

\* eventStore.saveEvents(id, [event of an unknown type], expectedVersion), called
\* and run by caller p
AppendUnknown(p) ==
    /\ pc[p] = "idle"
    /\ \E id \in Ids, expectedVersion \in 0..(MaxVersion - 1) :
          LET r == saveEvents(events, versions, id, <<UnknownEvent(id)>>, expectedVersion)
          IN  /\ events' = r.events
              /\ versions' = r.versions
              /\ result' = [result EXCEPT ![p] = Outcome("saveEvents", r.result)]
    /\ UNCHANGED <<snapshots, now, agg, pc, local, loadedVersion>>

\* caller 1 creates, blocks and saves an aggregate and appends events of an
\* unknown type to its stream; caller 2 loads it in both ways and snapshots it
NextUnknown ==
    \/ \E p \in {1} :
          \/ Create(p, {"a@x.com"})
          \/ Block(p)
          \/ Save(p)
          \/ SaveCommit(p)
          \/ AppendUnknown(p)
    \/ \E p \in {2} :
          \/ GetByIdStart(p)
          \/ GetByIdFinish(p)
          \/ ReplayFromHistory(p)
          \/ CreateSnapshot(p)

SpecUnknown == Init /\ [][NextUnknown]_vars

\* ------------------------------------------------ a consumer of getEventsAfter
\* a consumer polls eventStore.getEventsAfter(t) with t the largest timestamp it
\* has received so far (at first a time before every event), and keeps what it
\* receives
Poll(p) ==
    /\ pc[p] = "idle"
    /\ LET received == getEventsAfter(events, local[p].timestamp, now)
       IN  local' = [local EXCEPT ![p].events = @ \o received,
                                  ![p].timestamp =
                                     IF received = <<>> THEN @
                                     ELSE received[Len(received)].metadata.timestamp]
    /\ result' = [result EXCEPT ![p] = Outcome("getEventsAfter", Returned("ok"))]
    /\ UNCHANGED <<events, versions, snapshots, now, agg, pc, loadedVersion>>

\* caller 1 appends events to the store, the clock moves, caller 2 polls
NextPoll ==
    \/ Tick
    \/ \E p \in {1} : StoreCall(p) \/ StoreSaveEvents(p)
    \/ \E p \in {2} : Poll(p)

SpecPoll == Init /\ [][NextPoll]_vars

\* ----------------------------------------- two callers over a long history
\* a writer that creates an aggregate and changes its email again and again, and
\* a rival that loads the same aggregate, verifies its email and saves, in every
\* interleaving, up to a history as long as the snapshot interval: the
\* snapshots are the ones repository.save stores
NextShot ==
    \/ \E p \in {1} :
          \/ Create(p, {"a@x.com"})
          \/ ChangeEmailUpTo(p, MaxShotVersion)
    \/ \E p \in {2} : VerifyEmailUpTo(p, MaxShotVersion)
    \/ \E p \in Procs :
          \/ Save(p)
          \/ SaveCommit(p)
          \/ GetByIdStart(p)
          \/ GetByIdFinish(p)

SpecShot == Init /\ [][NextShot]_vars

\* ------------------------------------------------ instances that are kept
\* a caller commands the instance it holds only when the instance has nothing
\* unsaved or its save has just failed with a ConcurrencyError: every command
\* is followed by a save
Settled(p) ==
    \/ ~IsNull(agg[p]) /\ agg[p].uncommitted = <<>>
    \/ result[p].op = "save" /\ result[p].outcome = "ConcurrencyError"

\* caller 1 creates an aggregate, caller 2 loads it once, and both go on
\* commanding and saving the instance they hold, never loading it again
NextStale ==
    \/ \E p \in {1} :
          \/ Create(p, {"a@x.com"})
          \/ Settled(p) /\ Block(p)
    \/ \E p \in {2} :
          \/ IsNull(agg[p]) /\ GetByIdStart(p)
          \/ GetByIdFinish(p)
          \/ Settled(p) /\ Activate(p)
    \/ \E p \in Procs :
          \/ Settled(p) /\ VerifyEmail(p)
          \/ Save(p)
          \/ SaveCommit(p)

SpecStale == Init /\ [][NextStale]_vars

\* ------------------------------------------------ callers that retry a command
\* the callers that contend for one aggregate
Contenders == {1, 2, 3}

\* the aggregate "u1" has been created and saved; no caller holds anything yet
InitContend ==
    /\ \E userName \in Names :
          LET a == create("u1", EmailCreate("a@x.com"), userName, 0)
              r == saveEvents(EmptyMap, EmptyMap, a.id, a.uncommitted, ExpectedVersion(a))
          IN  events = r.events /\ versions = r.versions
    /\ snapshots = EmptyMap
    /\ now = 0
    /\ agg = [p \in Contenders |-> NoAgg]
    /\ pc = [p \in Contenders |-> "idle"]
    /\ local = [p \in Contenders |-> NoLocal]
    /\ result = [p \in Contenders |-> Outcome("none", Returned("none"))]
    /\ loadedVersion = [p \in Contenders |-> 0]

\* the caller has not loaded yet, or its save has thrown a ConcurrencyError
NeedsLoad(p) ==
    /\ pc[p] = "idle"
    /\ \/ result[p].op = "none"
       \/ result[p].op = "save" /\ result[p].outcome = "ConcurrencyError"

\* getById has just given the caller a copy
JustLoaded(p) == pc[p] = "idle" /\ result[p].op = "getById" /\ result[p].outcome = "ok"

\* the command has just put an event into the buffer of the copy
JustCommanded(p) ==
    /\ pc[p] = "idle"
    /\ result[p].op \in {"verifyEmail", "activate", "block"}
    /\ result[p].outcome = "ok"
    /\ agg[p].uncommitted # <<>>

\* one step of the loop of caller p: getById, its command, save, and again from
\* getById when save has thrown a ConcurrencyError. Caller 1 wants to verify the
\* email, caller 2 to activate, caller 3 to block.
Attempt(p) ==
    \/ NeedsLoad(p) /\ GetByIdStart(p)
    \/ GetByIdFinish(p)
    \/ p = 1 /\ JustLoaded(p) /\ VerifyEmail(p)
    \/ p = 2 /\ JustLoaded(p) /\ Activate(p)
    \/ p = 3 /\ JustLoaded(p) /\ Block(p)
    \/ JustCommanded(p) /\ Save(p)
    \/ SaveCommit(p)

NextContend == \E p \in Contenders : Attempt(p)

SpecContend == InitContend /\ [][NextContend]_vars

\* every caller is an async function on the event loop: a continuation that is
\* ready to run is run
SpecContendFair == SpecContend /\ \A p \in Contenders : WF_vars(Attempt(p))

\* ===================================================================== claims
\* what the claims read off the store
RecordedVersion(id) == IF id \in DOMAIN versions THEN versions[id] ELSE 0

StreamOf(id) == IF id \in DOMAIN events THEN events[id] ELSE <<>>

\* caller p's pending eventStore.saveEvents call runs in this step
SaveEventsRuns(p) == pc[p] = "saveEvents" /\ pc'[p] = "idle"

\* C1: saveEvents whose expectedVersion differs from the stream's recorded version
\* (0 for a stream never written) throws a ConcurrencyError carrying the id, the
\* expected version passed in and the actual recorded version, and leaves the
\* streams and the recorded versions as they were.
C1_ConflictRejected ==
    [][\A p \in Procs :
          (SaveEventsRuns(p) /\ RecordedVersion(local[p].id) # local[p].expectedVersion)
          => /\ result'[p].outcome = "ConcurrencyError"
             /\ result'[p].aggregateId = local[p].id
             /\ result'[p].expectedVersion = local[p].expectedVersion
             /\ result'[p].actualVersion = RecordedVersion(local[p].id)
             /\ events' = events
             /\ versions' = versions]_vars

C1_Witness ==
    \E p \in Procs :
       /\ result[p].op = "saveEvents"
       /\ result[p].outcome = "ConcurrencyError"
       /\ result[p].expectedVersion > result[p].actualVersion
       /\ Len(local[p].events) > 0
       /\ Len(StreamOf(local[p].id)) > 0

\* C2: saveEvents(id, [e1..ek], c) with c the stream's recorded version appends
\* exactly k stored events in input order with aggregateVersion c+1..c+k after the
\* events already stored, and sets the recorded version to c+k.
C2_AppendsInOrder ==
    [][\A p \in Procs :
          (SaveEventsRuns(p) /\ RecordedVersion(local[p].id) = local[p].expectedVersion)
          => LET id  == local[p].id
                 c   == RecordedVersion(id)
                 evs == local[p].events
                 k   == Len(evs)
                 old == StreamOf(id)
             IN  /\ result'[p].outcome = "ok"
                 /\ id \in DOMAIN events'
                 /\ Len(events'[id]) = Len(old) + k
                 /\ SubSeq(events'[id], 1, Len(old)) = old
                 /\ \A i \in 1..k :
                       /\ events'[id][Len(old) + i].metadata.aggregateVersion = c + i
                       /\ events'[id][Len(old) + i].metadata.eventType = evs[i].type
                       /\ events'[id][Len(old) + i].data.type = evs[i].type
                       /\ events'[id][Len(old) + i].data.reason = evs[i].reason
                 /\ versions'[id] = c + k]_vars

C2_Witness ==
    \E p \in Procs :
       /\ result[p].op = "saveEvents"
       /\ result[p].outcome = "ok"
       /\ local[p].expectedVersion = 1
       /\ Len(local[p].events) = 2
       /\ local[p].events[1].type # local[p].events[2].type
       /\ RecordedVersion(local[p].id) = 3

\* caller p's saveEvents call with a non-empty event list has run
SaveEventsDone(p) ==
    pc[p] = "idle" /\ result[p].op = "saveEvents" /\ Len(local[p].events) > 0

\* C4: of the saveEvents calls on one stream that present the same expectedVersion
\* with non-empty event lists, whatever the order in which they run, at most one
\* succeeds and every other one fails with ConcurrencyError.
C4_AtMostOneAppendWins ==
    \A p, q \in Procs :
       (/\ p # q
        /\ SaveEventsDone(p)
        /\ SaveEventsDone(q)
        /\ local[p].id = local[q].id
        /\ local[p].expectedVersion = local[q].expectedVersion)
       => /\ {result[p].outcome, result[q].outcome} \subseteq {"ok", "ConcurrencyError"}
          /\ ~(result[p].outcome = "ok" /\ result[q].outcome = "ok")

C4_Witness ==
    \E p, q \in Procs :
       /\ p # q
       /\ SaveEventsDone(p)
       /\ SaveEventsDone(q)
       /\ local[p].id = local[q].id
       /\ local[p].expectedVersion = local[q].expectedVersion
       /\ result[p].outcome = "ok"
       /\ result[q].outcome = "ConcurrencyError"
       /\ result[q].actualVersion = local[q].expectedVersion + Len(local[p].events)

\* ---------------------------------------------------- repository protocol
\* caller p calls op in this step (a call that changes nothing it could change
\* is a stuttering step and needs no check)
Called(p, op) == pc[p] = "idle" /\ result'[p].op = op /\ result'[p] # result[p]

StoreUnchanged == events' = events /\ versions' = versions

\* r is a ConcurrencyError for id with the given expected and actual versions
Threw(r, id, expected, actual) ==
    /\ r.outcome = "ConcurrencyError"
    /\ r.aggregateId = id
    /\ r.expectedVersion = expected
    /\ r.actualVersion = actual

Gave(r, op, outcome) == r.op = op /\ r.outcome = outcome

StreamTypes(id) == [i \in 1..Len(StreamOf(id)) |-> StreamOf(id)[i].metadata.eventType]

\* C3: in every reachable state the i-th stored event of every stream has
\* aggregateVersion i: the versions of a stream are 1, 2, 3, ... without gaps
\* or repeats, whatever creates, loads, commands and saves led there.
C3_VersionsAreDense ==
    \A id \in DOMAIN events :
       \A i \in 1..Len(events[id]) : events[id][i].metadata.aggregateVersion = i

C3_Witness ==
    \E p, q \in Procs :
       /\ ~IsNull(agg[p])
       /\ Len(StreamOf(agg[p].id)) >= 3
       /\ result[p].outcome = "ConcurrencyError"
       /\ result[q].op = "save"
       /\ result[q].outcome = "ok"

\* C5: an aggregate loaded at version V that has produced at least one event, whose
\* stream other saves have advanced to V' > V, fails repository.save with
\* ConcurrencyError(expectedVersion = V, actualVersion = V'), and the failed
\* attempt leaves the stream unchanged.
C5_StaleSaveRejected ==
    [][\A p \in Procs :
          (/\ Called(p, "save")
           /\ Len(agg[p].uncommitted) >= 1
           /\ RecordedVersion(agg[p].id) > loadedVersion[p])
          => /\ Threw(result'[p], agg[p].id, loadedVersion[p], RecordedVersion(agg[p].id))
             /\ StoreUnchanged]_vars

C5_Witness ==
    \E p \in Procs :
       /\ result[p].op = "save"
       /\ result[p].outcome = "ConcurrencyError"
       /\ result[p].expectedVersion = loadedVersion[p]
       /\ loadedVersion[p] >= 1
       /\ result[p].actualVersion = loadedVersion[p] + 2
       /\ Len(agg[p].uncommitted) = 2

\* Scenario C: the stream of Scenario A (created, email verified, activated) with
\* copy 1's block appended, and a copy 2 that was loaded at version 3
ScenarioCStream(id) ==
    StreamTypes(id) = <<"UserCreatedEvent", "UserEmailVerifiedEvent",
                        "UserActivatedEvent", "UserBlockedEvent">>

Copy2(p) == ~IsNull(agg[p]) /\ ScenarioCStream(agg[p].id) /\ loadedVersion[p] = 3

\* C6 as stated: copy 2 calls activate() and its save fails with
\* ConcurrencyError(expected = 3, actual = 4).
C6_ScenarioC_AsStated ==
    [][\A p \in Procs :
          (Copy2(p) /\ result[p].op = "activate" /\ Called(p, "save"))
          => Threw(result'[p], agg[p].id, 3, 4)]_vars

\* C6, amended: in Scenario C copy 2's activate() is a no-op, because the copy is
\* already Active: it produces no event and leaves the version at 3, and the save
\* that follows has nothing to append, succeeds and leaves the stream at version
\* 4. A copy 2 that has produced an event (block) fails its save with
\* ConcurrencyError(expected = 3, actual = 4), the stream unchanged.
C6_ScenarioC ==
    [][\A p \in Procs :
          Copy2(p)
          => /\ (Called(p, "activate") /\ agg[p].version = 3)
                => (agg'[p] = agg[p] /\ result'[p].outcome = "ok")
             /\ (pc[p] = "idle" /\ result'[p].op = "activate" /\ agg[p].version = 3)
                => agg'[p] = agg[p]
             /\ (Called(p, "save") /\ Len(agg[p].uncommitted) = 0)
                => (result'[p].outcome = "noop" /\ StoreUnchanged)
             /\ (Called(p, "save") /\ Len(agg[p].uncommitted) > 0)
                => /\ Threw(result'[p], agg[p].id, 3, 4)
                   /\ StoreUnchanged]_vars

C6_Witness ==
    \E p, q \in Procs :
       /\ Copy2(p)
       /\ agg[p].status = "active"
       /\ agg[p].version = 3
       /\ Gave(result[p], "save", "noop")
       /\ agg[q].id = agg[p].id
       /\ agg[q].status = "blocked"
       /\ agg[q].version = 4
       /\ Gave(result[q], "save", "ok")

\* C9: repository.save of an aggregate whose uncommitted-events buffer is empty
\* returns without failing and changes no stream, no recorded version, no snapshot
\* and not the aggregate, whatever the aggregate's and the stream's versions.
C9_EmptySaveIsNoOp ==
    [][\A p \in Procs :
          (Called(p, "save") /\ Len(agg[p].uncommitted) = 0)
          => /\ Gave(result'[p], "save", "noop")
             /\ pc'[p] = "idle"
             /\ StoreUnchanged
             /\ snapshots' = snapshots
             /\ agg' = agg]_vars

C9_Witness ==
    \E p \in Procs :
       /\ Gave(result[p], "save", "noop")
       /\ ~IsNull(agg[p])
       /\ agg[p].version >= 1
       /\ agg[p].version < RecordedVersion(agg[p].id)

\* the events of a's buffer are stored in a's stream from position base + 1 on
BufferInStream(a, base) ==
    \A i \in 1..Len(a.uncommitted) :
       /\ base + i <= Len(StreamOf(a.id))
       /\ StreamOf(a.id)[base + i].metadata.eventType = a.uncommitted[i].type
       /\ StreamOf(a.id)[base + i].metadata.aggregateVersion = a.uncommitted[i].aggregateVersion

AggregateCommands == {"activate", "block", "verifyEmail", "changeEmail", "recordLogin"}

\* C10: the uncommitted-events buffer holds, in production order, exactly the
\* events produced since the aggregate's creation, load or last successful save;
\* repository.save empties it only after the store has appended its events, and
\* after a successful save the buffer is empty and its former events are in the
\* stream.
C10_BufferThenConfirm ==
    [][\A p \in Procs :
          /\ ~IsNull(agg'[p])
             => Len(agg'[p].uncommitted) = agg'[p].version - loadedVersion'[p]
          /\ (pc[p] = "save" /\ pc'[p] = "idle")
             => /\ agg'[p].uncommitted = <<>>
                /\ BufferInStream(agg[p], loadedVersion[p])
                /\ StoreUnchanged
          /\ (agg'[p].uncommitted # agg[p].uncommitted)
             => \/ pc[p] = "save" /\ pc'[p] = "idle"
                \/ /\ Called(p, "create")
                   /\ Len(agg'[p].uncommitted) = 1
                   /\ agg'[p].uncommitted[1].type = "UserCreatedEvent"
                \/ /\ result'[p].op \in {"getById", "replayFromHistory"}
                   /\ pc'[p] = "idle"
                   /\ agg'[p].uncommitted = <<>>
                \/ /\ \E op \in AggregateCommands : Called(p, op)
                   /\ agg'[p].id = agg[p].id
                   /\ agg'[p].version = agg[p].version + 1
                   /\ Len(agg'[p].uncommitted) = Len(agg[p].uncommitted) + 1
                   /\ SubSeq(agg'[p].uncommitted, 1, Len(agg[p].uncommitted))
                        = agg[p].uncommitted
                   /\ agg'[p].uncommitted[Len(agg'[p].uncommitted)].aggregateVersion
                        = agg'[p].version]_vars

C10_Witness ==
    \E p \in Procs :
       /\ pc[p] = "save"
       /\ Len(agg[p].uncommitted) = 2
       /\ loadedVersion[p] = 1
       /\ BufferInStream(agg[p], loadedVersion[p])
       /\ RecordedVersion(agg[p].id) = agg[p].version

\* ------------------------------------------------------------- snapshots
\* what a caller can observe of an aggregate
Observable(a) ==
    [id |-> a.id, version |-> a.version, status |-> a.status,
     isEmailVerified |-> a.isEmailVerified, email |-> a.email, userName |-> a.userName,
     createdAt |-> a.createdAt, lastLoginAt |-> a.lastLoginAt]

\* the business state after the first n events of the stream of id
FoldOfStream(id, n) ==
    ApplyHistory(NewAggregate(id), deserializeEvents(SubSeq(StreamOf(id), 1, n), now))

\* the stored snapshot of id was taken of this stream, at a version it has reached
SnapshotOfStream(id) ==
    LET s == snapshots[id]
        f == FoldOfStream(id, s.version)
    IN  /\ s.version <= Len(StreamOf(id))
        /\ s.data.status = f.status
        /\ s.data.email = f.email
        /\ s.data.isEmailVerified = f.isEmailVerified
        /\ s.data.firstName = f.userName.firstName
        /\ s.data.lastName = f.userName.lastName

\* C7: for every stream and every snapshot of it taken at a version V <= N (or no
\* snapshot), getById (snapshot plus the events after V) and replayFromHistory
\* (replay from version 0) return aggregates with the same id, version, status,
\* verified flag, email, name, createdAt and lastLoginAt.
C7_SnapshotEquivalence ==
    \A id \in DOMAIN events :
       (Len(events[id]) > 0 /\ (id \in DOMAIN snapshots => SnapshotOfStream(id)))
       => \A uuid \in Uuids :
             Observable(getById(events, snapshots, id, now, uuid))
               = Observable(replayFromHistory(events, id, now, uuid))

C11_ConflictPropagated ==
    [][\A p \in Procs :
          (/\ Called(p, "save")
           /\ Len(agg[p].uncommitted) >= 1
           /\ RecordedVersion(agg[p].id) # agg[p].version - Len(agg[p].uncommitted))
          => /\ Threw(result'[p], agg[p].id,
                      agg[p].version - Len(agg[p].uncommitted), RecordedVersion(agg[p].id))
             /\ result'[p].op = "save"
             /\ pc'[p] = "idle"
             /\ agg'[p] = agg[p]
             /\ StoreUnchanged
             /\ snapshots' = snapshots]_vars

C11_Witness ==
    \E p \in Procs :
       /\ Gave(result[p], "save", "ConcurrencyError")
       /\ pc[p] = "idle"
       /\ Len(agg[p].uncommitted) = 1
       /\ agg[p].uncommitted[1].type = "UserBlockedEvent"
       /\ agg[p].status = "blocked"
       /\ result[p].expectedVersion = agg[p].version - 1
       /\ result[p].actualVersion = RecordedVersion(agg[p].id)
       /\ result[p].actualVersion > result[p].expectedVersion

C13_Boundary ==
    [][\A p \in Procs :
          /\ (Called(p, "fromHistory") /\ local[p].events = <<>>)
             => (Gave(result'[p], "fromHistory", "Error") /\ agg'[p] = agg[p])
          /\ (pc[p] = "idle" /\ pc'[p] = "getById" /\ local'[p].id \notin DOMAIN snapshots)
             => (IsNull(local'[p].aggregate) /\ local'[p].fromVersion = 0)
          /\ (/\ pc[p] = "getById"
              /\ pc'[p] = "idle"
              /\ local[p].fromVersion = 0
              /\ StreamOf(local[p].id) = <<>>)
             => (Gave(result'[p], "getById", "null") /\ agg'[p] = NoAgg)
          /\ (Called(p, "replayFromHistory") /\ \A id \in Ids : StreamOf(id) = <<>>)
             => (Gave(result'[p], "replayFromHistory", "null") /\ agg'[p] = NoAgg)]_vars

C13_Witness ==
    \E p, q \in Procs :
       /\ Gave(result[p], "fromHistory", "Error")
       /\ ~IsNull(agg[p])
       /\ agg[p].version = 1
       /\ Gave(result[q], "getById", "null")
       /\ IsNull(agg[q])
       /\ DOMAIN events = {}

\* ------------------------------------------------------------ store reads
\* the positions of the stream of id whose event has a version above fromVersion
After(id, fromVersion) ==
    {i \in 1..Len(StreamOf(id)) : StreamOf(id)[i].metadata.aggregateVersion > fromVersion}

\* r holds the events of the stream of id at the positions I, in stream order
IsSelection(r, id, I) ==
    /\ Len(r) = Cardinality(I)
    /\ \A i \in I : r[Cardinality({k \in I : k <= i})] = StreamOf(id)[i]

\* C14: getEventsForAggregate(id, fromVersion) returns exactly the stored events
\* of the stream with aggregateVersion > fromVersion, in append order; without
\* fromVersion it returns the whole stream in append order; for an id never
\* written it returns the empty sequence and does not fail; it changes no store
\* state, so its result is determined by the arguments and the streams alone.
C14_ReadsTheStream ==
    [][\A p \in Procs :
          /\ (result'[p].op = "getEventsForAggregate" /\ local'[p] # local[p])
             => /\ IsSelection(local'[p].events, local'[p].id,
                               After(local'[p].id, local'[p].fromVersion))
                /\ result'[p].outcome = "ok"
                /\ StoreUnchanged
          /\ (result'[p].op = "getAllEventsForAggregate" /\ local'[p] # local[p])
             => /\ local'[p].events = StreamOf(local'[p].id)
                /\ result'[p].outcome = "ok"
                /\ StoreUnchanged
          /\ (/\ result'[p].op \in {"getEventsForAggregate", "getAllEventsForAggregate"}
              /\ result'[p] # result[p]
              /\ local'[p].id \notin DOMAIN events)
             => local'[p].events = <<>>]_vars

C14_Witness ==
    \E p, q \in Procs :
       /\ result[p].op = "getEventsForAggregate"
       /\ local[p].fromVersion = 1
       /\ Len(local[p].events) = 2
       /\ Len(StreamOf(local[p].id)) = 3
       /\ local[p].events[1] = StreamOf(local[p].id)[2]
       /\ result[q].op = "getAllEventsForAggregate"
       /\ Len(local[q].events) = 3

\* ----------------------------------------------------------- append only
\* C15: once an event is stored in a stream, no later operation of the store or
\* the repository removes it, reorders it or changes its aggregateVersion,
\* eventType or data: every stream is an extension of each of its earlier values.
C15_AppendOnly ==
    [][\A id \in DOMAIN events :
          /\ id \in DOMAIN events'
          /\ Len(events'[id]) >= Len(events[id])
          /\ SubSeq(events'[id], 1, Len(events[id])) = events[id]]_vars

\* -------------------------------------------------------- stream isolation
\* the stream, the recorded version and the snapshot of id are the same after
\* the step as before it
SameStream(id) ==
    /\ (id \in DOMAIN events') = (id \in DOMAIN events)
    /\ id \in DOMAIN events => events'[id] = events[id]
    /\ (id \in DOMAIN versions') = (id \in DOMAIN versions)
    /\ id \in DOMAIN versions => versions'[id] = versions[id]
    /\ (id \in DOMAIN snapshots') = (id \in DOMAIN snapshots)
    /\ id \in DOMAIN snapshots => snapshots'[id] = snapshots[id]

\* C16: a repository.save(aggregate), successful or failed, changes at most the
\* stream, the recorded version and the snapshot of aggregate.id and leaves those
\* of every other id unchanged; a save fails with ConcurrencyError only over the
\* recorded version of its own stream.
C16_StreamIsolation ==
    [][\A p \in Procs :
          /\ (Called(p, "save") \/ (pc[p] = "save" /\ pc'[p] = "idle"))
             => \A id \in TwoIds \ {agg[p].id} : SameStream(id)
          /\ (Called(p, "save") /\ result'[p].outcome = "ConcurrencyError")
             => /\ result'[p].aggregateId = agg[p].id
                /\ RecordedVersion(agg[p].id) # agg[p].version - Len(agg[p].uncommitted)]_vars

C16_Witness ==
    \E p, q \in Procs :
       /\ p # q
       /\ agg[p].id = "u1"
       /\ agg[q].id = "u1"
       /\ Gave(result[p], "save", "ConcurrencyError")
       /\ Gave(result[q], "save", "ok")
       /\ Len(StreamOf("u1")) = 2
       /\ Len(StreamOf("u2")) = 1

\* ------------------------------------------------------ the user's states
UserCommands == {"activate", "block", "verifyEmail", "changeEmail"}

StatusMoves == {<<"pending", "active">>, <<"pending", "blocked">>, <<"active", "blocked">>}

\* caller p's step is a command on the aggregate it holds
Commands(p) ==
    /\ pc[p] = "idle"
    /\ result'[p].op \in UserCommands
    /\ (agg'[p] # agg[p] \/ result'[p] # result[p])

\* C17: a command moves the status only from Pending to Active, from Pending to
\* Blocked or from Active to Blocked; no command (activate, block, verifyEmail,
\* changeEmail) changes the status of a Blocked aggregate, and activate() on a
\* Blocked aggregate fails with an error.
C17_UserStateMachine ==
    [][\A p \in Procs :
          /\ (Commands(p) /\ agg'[p].status # agg[p].status)
             => <<agg[p].status, agg'[p].status>> \in StatusMoves
          /\ (Commands(p) /\ agg[p].status = "blocked") => agg'[p].status = "blocked"
          /\ (Called(p, "activate") /\ agg[p].status = "blocked")
             => result'[p].outcome = "Error"]_vars

C17_Witness ==
    \E p \in Procs :
       /\ agg[p].status = "blocked"
       /\ Gave(result[p], "activate", "Error")
       /\ Len(agg[p].uncommitted) = 2
       /\ agg[p].uncommitted[1].type = "UserActivatedEvent"
       /\ agg[p].uncommitted[2].type = "UserBlockedEvent"
       /\ agg[p].version = 3

\* the events that the step appends to the stream of id
Appended(id) ==
    IF id \in DOMAIN events'
    THEN SubSeq(events'[id], Len(StreamOf(id)) + 1, Len(events'[id]))
    ELSE <<>>

\* C18: activate() on a Blocked aggregate fails before any event is produced:
\* version, status, email, verified flag and buffer are after the failed command
\* what they were before it, the store is untouched, and the repository.save
\* that follows appends nothing for that command: it appends the buffer or
\* nothing, and no activation follows the block in the stream.
C18_RuleViolationLeavesNoTrace ==
    [][\A p \in Procs :
          /\ (Called(p, "activate") /\ agg[p].status = "blocked")
             => /\ result'[p].outcome = "Error"
                /\ agg'[p] = agg[p]
                /\ StoreUnchanged
          /\ (Called(p, "save") /\ Gave(result[p], "activate", "Error"))
             => /\ Len(Appended(agg[p].id)) \in {0, Len(agg[p].uncommitted)}
                /\ \A i \in 1..Len(Appended(agg[p].id)) :
                      Appended(agg[p].id)[i].metadata.eventType = agg[p].uncommitted[i].type
                /\ \A i, j \in 1..Len(events'[agg[p].id]) :
                      (i < j /\ events'[agg[p].id][i].metadata.eventType = "UserBlockedEvent")
                      => events'[agg[p].id][j].metadata.eventType # "UserActivatedEvent"]_vars

C18_Witness ==
    \E p \in Procs :
       /\ Gave(result[p], "activate", "Error")
       /\ agg[p].status = "blocked"
       /\ agg[p].version = 2
       /\ Len(agg[p].uncommitted) = 1
       /\ agg[p].uncommitted[1].type = "UserBlockedEvent"
       /\ Len(StreamOf(agg[p].id)) = 1

\* the command result r is that of a command that did nothing to a
NoOp(r, a) == r.agg = a /\ r.result.outcome = "ok"

\* C19: a command that would not change the state (activate() when Active,
\* block() when Blocked, verifyEmail() when verified, changeEmail(e) with e the
\* current email) produces no event, leaves version and buffer unchanged and
\* raises no error; so a command issued twice in a row produces at most one event.
C19_NoOpCommands ==
    [][\A p \in Procs :
          /\ (Commands(p) /\ result'[p].op = "activate" /\ agg[p].status = "active")
             => (agg'[p] = agg[p] /\ result'[p].outcome = "ok")
          /\ (Commands(p) /\ result'[p].op = "block" /\ agg[p].status = "blocked")
             => (agg'[p] = agg[p] /\ result'[p].outcome = "ok")
          /\ (Commands(p) /\ result'[p].op = "verifyEmail" /\ agg[p].isEmailVerified)
             => (agg'[p] = agg[p] /\ result'[p].outcome = "ok")
          /\ (Commands(p) /\ result'[p].op = "changeEmail" /\ agg'[p] # agg[p])
             => agg'[p].email # agg[p].email
          /\ (Commands(p) /\ Gave(result[p], result'[p].op, "ok")
                /\ result'[p].op # "changeEmail")
             => agg'[p] = agg[p]
          /\ Commands(p)
             => /\ Len(agg'[p].uncommitted) <= Len(agg[p].uncommitted) + 1
                /\ \A e \in RawEmails :
                      LET once == changeEmail(agg[p], EmailCreate(e), now)
                      IN  /\ NoOp(changeEmail(once.agg, EmailCreate(e), now), once.agg)
                          /\ EmailCreate(e) = agg[p].email => NoOp(once, agg[p])]_vars

C19_Witness ==
    \E p \in Procs :
       /\ Gave(result[p], "verifyEmail", "ok")
       /\ agg[p].isEmailVerified
       /\ agg[p].status = "active"
       /\ agg[p].uncommitted = <<>>
       /\ agg[p].version = 3
       /\ Len(StreamOf(agg[p].id)) = 3

\* -------------------------------------------------- email and its flag
\* the last event of the stored events s whose type is in types, or none
LastOf(s, types) ==
    LET I == {i \in 1..Len(s) : s[i].metadata.eventType \in types}
    IN  IF I = {} THEN <<>> ELSE <<s[CHOOSE i \in I : \A k \in I : k <= i]>>

\* C20: an email-changed event sets the verified flag to false and the email to
\* the new value, an email-verified event sets the flag to true, and neither
\* changes the status; activated and blocked events change neither the email nor
\* the flag; changeEmail with a different address on an aggregate at version v
\* leaves it at version v+1. This holds of the events a command applies and of
\* the events a load replays.
C20_EmailFlagOrthogonal ==
    [][\A p \in Procs :
          /\ (Commands(p) /\ agg'[p].version # agg[p].version)
             => LET e == agg'[p].uncommitted[Len(agg'[p].uncommitted)]
                IN  /\ agg'[p].version = agg[p].version + 1
                    /\ e.type = "UserEmailChangedEvent"
                       => /\ result'[p].op = "changeEmail"
                          /\ agg'[p].isEmailVerified = FALSE
                          /\ agg'[p].email = e.newEmail
                          /\ e.oldEmail = agg[p].email
                          /\ agg'[p].email # agg[p].email
                          /\ agg'[p].status = agg[p].status
                    /\ e.type = "UserEmailVerifiedEvent"
                       => /\ agg'[p].isEmailVerified = TRUE
                          /\ agg'[p].email = agg[p].email
                          /\ agg'[p].status = agg[p].status
                    /\ e.type \in {"UserActivatedEvent", "UserBlockedEvent"}
                       => /\ agg'[p].isEmailVerified = agg[p].isEmailVerified
                          /\ agg'[p].email = agg[p].email
          /\ (Commands(p) /\ result'[p].op = "changeEmail" /\ agg'[p].email # agg[p].email)
             => agg'[p].version = agg[p].version + 1
          /\ (pc[p] = "getById" /\ pc'[p] = "idle" /\ ~IsNull(agg'[p]))
             => LET s == StreamOf(agg'[p].id)
                    f == LastOf(s, {"UserCreatedEvent", "UserEmailChangedEvent",
                                    "UserEmailVerifiedEvent"})
                    m == LastOf(s, {"UserCreatedEvent", "UserEmailChangedEvent"})
                    t == LastOf(s, {"UserActivatedEvent", "UserBlockedEvent"})
                IN  /\ agg'[p].isEmailVerified
                         = (f[1].metadata.eventType = "UserEmailVerifiedEvent")
                    /\ agg'[p].email = IF m[1].metadata.eventType = "UserCreatedEvent"
                                       THEN m[1].data.email ELSE m[1].data.newEmail
                    /\ agg'[p].status = IF t = <<>> THEN "pending"
                                        ELSE IF t[1].metadata.eventType = "UserBlockedEvent"
                                        THEN "blocked" ELSE "active"]_vars

C20_Witness ==
    \E p \in Procs :
       /\ Gave(result[p], "changeEmail", "ok")
       /\ loadedVersion[p] = 3
       /\ agg[p].version = 4
       /\ agg[p].status = "active"
       /\ agg[p].isEmailVerified = FALSE
       /\ agg[p].email = "b@x.com"
       /\ Len(agg[p].uncommitted) = 1
       /\ StreamTypes(agg[p].id) = <<"UserCreatedEvent", "UserEmailVerifiedEvent",
                                     "UserActivatedEvent">>

\* ------------------------------------------------------------- creation
\* caller p's pending repository.save completes in this step
SaveCompletes(p) == pc[p] = "save" /\ pc'[p] = "idle"

\* C21: create returns an aggregate at version 1 with status Pending, the email
\* unverified and exactly one uncommitted event, the created event stamped with
\* version 1; the save that follows succeeds, and after it the stream holds
\* exactly that one event with aggregateVersion 1 and the buffer is empty.
C21_CreateThenSave ==
    [][\A p \in Procs :
          /\ Called(p, "create")
             => /\ agg'[p].version = 1
                /\ agg'[p].status = "pending"
                /\ agg'[p].isEmailVerified = FALSE
                /\ Len(agg'[p].uncommitted) = 1
                /\ agg'[p].uncommitted[1].type = "UserCreatedEvent"
                /\ agg'[p].uncommitted[1].aggregateId = agg'[p].id
                /\ agg'[p].uncommitted[1].aggregateVersion = 1
                /\ StreamOf(agg'[p].id) = <<>>
          /\ (Called(p, "save") /\ Gave(result[p], "create", "ok"))
             => /\ result'[p].outcome = "pending"
                /\ pc'[p] = "save"
                /\ Len(events'[agg[p].id]) = 1
                /\ events'[agg[p].id][1].metadata.eventType = "UserCreatedEvent"
                /\ events'[agg[p].id][1].metadata.aggregateVersion = 1
                /\ events'[agg[p].id][1].data.email = agg[p].email
                /\ versions'[agg[p].id] = 1
          /\ (SaveCompletes(p) /\ agg[p].version = 1)
             => /\ result'[p].outcome = "ok"
                /\ agg'[p].uncommitted = <<>>
                /\ agg'[p].version = 1
                /\ agg'[p].status = "pending"
                /\ agg'[p].isEmailVerified = FALSE
                /\ StreamTypes(agg[p].id) = <<"UserCreatedEvent">>
                /\ StoreUnchanged]_vars

C21_Witness ==
    \E p \in Procs :
       /\ Gave(result[p], "save", "ok")
       /\ agg[p].version = 1
       /\ agg[p].status = "pending"
       /\ agg[p].isEmailVerified = FALSE
       /\ agg[p].email = "a@x.com"
       /\ agg[p].uncommitted = <<>>
       /\ StreamTypes(agg[p].id) = <<"UserCreatedEvent">>
       /\ StreamOf(agg[p].id)[1].metadata.aggregateVersion = 1

\* ------------------------------------------------- state and its events
\* the state fields of an aggregate, without its id, version and buffer
StateOf(a) ==
    [email |-> a.email, userName |-> a.userName, status |-> a.status,
     isEmailVerified |-> a.isEmailVerified, createdAt |-> a.createdAt,
     lastLoginAt |-> a.lastLoginAt]

\* C22: every operation of the aggregate that changes a state field does so by
\* applying an event: the step that changes the state advances the version by one
\* and buffers one event, and the new state is what that event's handler makes
\* of the old one.
C22_OnlyEventsChangeState ==
    [][\A p \in Procs :
          (/\ pc[p] = "idle"
           /\ result'[p].op \in AggregateCommands
           /\ StateOf(agg'[p]) # StateOf(agg[p]))
          => /\ agg'[p].version = agg[p].version + 1
             /\ Len(agg'[p].uncommitted) = Len(agg[p].uncommitted) + 1
             /\ StateOf(agg'[p])
                  = StateOf(when(agg[p], agg'[p].uncommitted[Len(agg'[p].uncommitted)]))]_vars

\* ------------------------------------------------------ live and replayed
\* caller p holds an aggregate whose every event has been saved
Saved(p) == pc[p] = "idle" /\ ~IsNull(agg[p]) /\ agg[p].uncommitted = <<>>

\* C23: when every command on the live aggregate has been followed by a
\* successful save, replayFromHistory of its id returns an aggregate with the
\* same id, version, status, verified flag and email as the live one; after
\* create, verifyEmail, activate the replay has version 3, verified true and
\* status active.
C23_LiveEqualsReplayed ==
    [][\A p, q \in Procs :
          (Saved(p) /\ p # q /\ Called(q, "replayFromHistory"))
          => /\ result'[q].outcome = "ok"
             /\ agg'[q].id = agg[p].id
             /\ agg'[q].version = agg[p].version
             /\ agg'[q].status = agg[p].status
             /\ agg'[q].isEmailVerified = agg[p].isEmailVerified
             /\ agg'[q].email = agg[p].email
             /\ agg'[q].uncommitted = <<>>
             /\ StreamTypes(agg[p].id) = <<"UserCreatedEvent", "UserEmailVerifiedEvent",
                                           "UserActivatedEvent">>
                => /\ agg'[q].version = 3
                   /\ agg'[q].isEmailVerified = TRUE
                   /\ agg'[q].status = "active"]_vars

C23_Witness ==
    \E p, q \in Procs :
       /\ Saved(p)
       /\ Gave(result[p], "save", "ok")
       /\ Gave(result[q], "replayFromHistory", "ok")
       /\ StreamTypes(agg[p].id) = <<"UserCreatedEvent", "UserEmailVerifiedEvent",
                                     "UserActivatedEvent">>
       /\ agg[q].id = agg[p].id
       /\ agg[q].version = 3
       /\ agg[q].isEmailVerified
       /\ agg[q].status = "active"
       /\ agg[p].version = 3

\* -------------------------------------------------- snapshots after a save
\* caller p's save completes at a version where a snapshot is due, and the
\* snapshot store has not stored one
SnapshotFailed(p) ==
    /\ SaveCompletes(p)
    /\ SnapshotDue(agg[p])
    /\ agg[p].id \notin DOMAIN snapshots'

\* C24: when saveSnapshot fails during repository.save after the events were
\* appended, the appended events stay in the stream, the aggregate's buffer
\* stays cleared, and the save is not reported to the caller as failed.
C24_SnapshotBestEffort ==
    [][\A p \in Procs :
          SnapshotFailed(p)
          => /\ StoreUnchanged
             /\ BufferInStream(agg[p], loadedVersion[p])
             /\ agg'[p].uncommitted = <<>>
             /\ result'[p].outcome = "ok"]_vars

\* the events of the stream of id after its first n
Trailing(id, n) == SubSeq(StreamOf(id), n + 1, Len(StreamOf(id)))

\* C25 (Scenario D): with a snapshot store, the save that brings an aggregate to
\* version 10, however the ten events were split over saves, stores a snapshot
\* at version 10 of the state at that version; the snapshot stays stored; and
\* a getById after it builds the aggregate from that snapshot and applies only
\* the events with aggregateVersion > 10, not the stream from version 0.
C25_ScenarioD ==
    [][\A p \in Procs :
          /\ (SaveCompletes(p) /\ agg[p].version = SnapshotInterval)
             => /\ Len(StreamOf(agg[p].id)) = SnapshotInterval
                /\ agg[p].id \in DOMAIN snapshots'
                /\ snapshots'[agg[p].id].version = SnapshotInterval
                /\ snapshots'[agg[p].id].aggregateId = agg[p].id
                /\ snapshots'[agg[p].id].data.email = agg[p].email
                /\ snapshots'[agg[p].id].data.status = agg[p].status
                /\ snapshots'[agg[p].id].data.isEmailVerified = agg[p].isEmailVerified
          /\ \A id \in DOMAIN snapshots :
                id \in DOMAIN snapshots' /\ snapshots'[id] = snapshots[id]
          /\ (pc[p] = "idle" /\ pc'[p] = "getById" /\ local'[p].id \in DOMAIN snapshots)
             => /\ local'[p].fromVersion = SnapshotInterval
                /\ local'[p].aggregate.version = SnapshotInterval
                /\ local'[p].aggregate.id = local'[p].id
                /\ local'[p].aggregate.email = snapshots[local'[p].id].data.email
          /\ (pc[p] = "getById" /\ pc'[p] = "idle" /\ local[p].fromVersion > 0)
             => /\ result'[p].outcome = "ok"
                /\ agg'[p] = ApplyHistory(local[p].aggregate,
                                          deserializeEvents(
                                             Trailing(local[p].id, local[p].fromVersion), now))
                /\ agg'[p].version = Len(StreamOf(local[p].id))
                /\ \A i \in 1..Len(Trailing(local[p].id, local[p].fromVersion)) :
                      Trailing(local[p].id, local[p].fromVersion)[i].metadata.aggregateVersion
                        > SnapshotInterval]_vars

C25_Witness ==
    \E p \in Procs :
       /\ Gave(result[p], "getById", "ok")
       /\ agg[p].id \in DOMAIN snapshots
       /\ snapshots[agg[p].id].version = SnapshotInterval
       /\ Len(StreamOf(agg[p].id)) = SnapshotInterval + 1
       /\ agg[p].version = SnapshotInterval + 1
       /\ loadedVersion[p] = SnapshotInterval + 1
       /\ agg[p].uncommitted = <<>>
       /\ agg[p].email # snapshots[agg[p].id].data.email

\* --------------------------------------------------- getVersion and exists
\* caller p's step is a call of op that returns
Returns(p, op) ==
    /\ pc[p] = "idle"
    /\ result'[p].op = op
    /\ (result'[p] # result[p] \/ local'[p] # local[p])

\* C26: getVersion(id) returns the aggregateVersion of the last stored event of
\* the stream and 0 for a stream never written; this is the store's recorded
\* version of id and the number of events in the stream, in every reachable
\* state; exists(id) returns true exactly when that number is greater than 0.
C26_GetVersion ==
    [][\A p \in Procs :
          /\ \A id \in Ids : RecordedVersion(id) = Len(StreamOf(id))
          /\ Returns(p, "getVersion")
             => LET id == local'[p].id
                IN  /\ result'[p].outcome = "ok"
                    /\ result'[p].value = RecordedVersion(id)
                    /\ result'[p].value = Len(StreamOf(id))
                    /\ id \notin DOMAIN events => result'[p].value = 0
                    /\ Len(StreamOf(id)) > 0
                       => result'[p].value
                            = StreamOf(id)[Len(StreamOf(id))].metadata.aggregateVersion
                    /\ StoreUnchanged
          /\ Returns(p, "exists")
             => /\ (result'[p].outcome = "true") = (RecordedVersion(local'[p].id) > 0)
                /\ (result'[p].outcome = "false") = (RecordedVersion(local'[p].id) = 0)
                /\ (result'[p].outcome = "true") = (getVersion(events, local'[p].id) > 0)
                /\ StoreUnchanged]_vars

C26_Witness ==
    \E p, q \in Procs :
       /\ Gave(result[p], "getVersion", "ok")
       /\ result[p].value = 3
       /\ RecordedVersion(local[p].id) = 3
       /\ Len(StreamOf(local[p].id)) = 3
       /\ Gave(result[q], "saveEvents", "ok")

\* ------------------------------------------------------------- recovery
\* caller p holds a copy that no command has touched since it was loaded or saved
Fresh(p) == pc[p] = "idle" /\ ~IsNull(agg[p]) /\ agg[p].uncommitted = <<>>

BufferTypes(a) == [i \in 1..Len(a.uncommitted) |-> a.uncommitted[i].type]

Lifecycle ==
    <<"UserCreatedEvent", "UserEmailVerifiedEvent", "UserActivatedEvent",
      "UserEmailChangedEvent", "UserBlockedEvent">>

\* C28: one instance that is commanded and saved again and again without being
\* reloaded, with no other writer: no save fails, a save appends the buffered
\* events in the order the commands produced them, after each save the stream's
\* recorded version is the aggregate's version, and the stream followed by the
\* buffer is at every moment the sequence of events produced; the lifecycle
\* create, verifyEmail, activate, changeEmail, block ends at version 5, blocked,
\* unverified, with its five events stored in that order.
C28_RepeatedSaves ==
    [][\A p \in Procs :
          /\ Called(p, "save")
             => /\ result'[p].outcome \in {"pending", "noop"}
                /\ StreamTypes(agg[p].id) \o BufferTypes(agg[p])
                     = [i \in 1..Len(events'[agg[p].id]) |->
                           events'[agg[p].id][i].metadata.eventType]
          /\ SaveCompletes(p)
             => /\ result'[p].outcome = "ok"
                /\ agg'[p].uncommitted = <<>>
                /\ RecordedVersion(agg[p].id) = agg'[p].version
                /\ Len(StreamOf(agg[p].id)) = agg'[p].version
          /\ (Commands(p) /\ agg'[p].version # agg[p].version)
             => /\ Len(agg'[p].uncommitted) = Len(agg[p].uncommitted) + 1
                /\ SubSeq(agg'[p].uncommitted, 1, Len(agg[p].uncommitted)) = agg[p].uncommitted
                /\ Len(StreamOf(agg[p].id)) + Len(agg'[p].uncommitted) = agg'[p].version
          /\ (Saved(p) /\ StreamTypes(agg[p].id) = Lifecycle)
             => /\ agg[p].version = Len(Lifecycle)
                /\ agg[p].status = "blocked"
                /\ agg[p].isEmailVerified = FALSE]_vars

C28_Witness ==
    \E p \in Procs :
       /\ Gave(result[p], "save", "ok")
       /\ StreamTypes(agg[p].id) = Lifecycle
       /\ agg[p].version = Len(Lifecycle)
       /\ agg[p].status = "blocked"
       /\ agg[p].isEmailVerified = FALSE
       /\ agg[p].email = "b@x.com"
       /\ agg[p].uncommitted = <<>>
       /\ loadedVersion[p] = Len(Lifecycle)
       /\ RecordedVersion(agg[p].id) = Len(Lifecycle)

\* ------------------------------------------------- the expected version
\* the version of a before the events of its buffer were applied
BaseVersion(a) == a.version - Len(a.uncommitted)

\* caller p's step gives it another aggregate, or completes a save of its own
Rebased(p) ==
    \/ SaveCompletes(p)
    \/ result'[p].op \in {"create", "getById", "replayFromHistory", "fromHistory"}

\* C29: version minus the number of uncommitted events is 0 for a freshly created
\* aggregate and the loaded version for a loaded one, stays the same under every
\* command and every failed save until the next successful save, after which it
\* is the saved version; and it is the expectedVersion that repository.save
\* hands to the store.
C29_BaseVersionConstant ==
    [][\A p \in Procs :
          /\ ~IsNull(agg'[p]) => BaseVersion(agg'[p]) = loadedVersion'[p]
          /\ Called(p, "create") => BaseVersion(agg'[p]) = 0
          /\ (pc'[p] = "idle" /\ result'[p].op \in {"getById", "replayFromHistory"}
                /\ ~IsNull(agg'[p]))
             => BaseVersion(agg'[p]) = agg'[p].version
          /\ SaveCompletes(p) => BaseVersion(agg'[p]) = agg[p].version
          /\ (~Rebased(p) /\ ~IsNull(agg[p]))
             => (~IsNull(agg'[p]) /\ BaseVersion(agg'[p]) = BaseVersion(agg[p]))
          /\ (Called(p, "save") /\ Len(agg[p].uncommitted) > 0)
             => \/ /\ pc'[p] = "save"
                   /\ local'[p].expectedVersion = BaseVersion(agg[p])
                   /\ RecordedVersion(agg[p].id) = BaseVersion(agg[p])
                \/ /\ result'[p].outcome = "ConcurrencyError"
                   /\ result'[p].expectedVersion = BaseVersion(agg[p])
                   /\ RecordedVersion(agg[p].id) # BaseVersion(agg[p])]_vars

C29_Witness ==
    \E p \in Procs :
       /\ Gave(result[p], "save", "ConcurrencyError")
       /\ result[p].expectedVersion = 1
       /\ result[p].actualVersion = 2
       /\ loadedVersion[p] = 1
       /\ agg[p].version = 3
       /\ Len(agg[p].uncommitted) = 2

\* --------------------------------------------------------------- applyEvent
\* caller p's step is an applyEvent call of the kind op
Applied(p, op) == result'[p].op = op /\ agg'[p] # agg[p]

\* C30: applyEvent(event, isNew) raises the version by exactly 1 whether isNew
\* is true or false; with isNew true it appends the event, stamped with the new
\* version, to the end of the buffer, with isNew false it leaves the buffer as
\* it is; an aggregate that no event has been applied to is at version 0 with
\* an empty buffer.
C30_ApplyEventVersion ==
    [][\A p \in Procs :
          /\ result[p].op = "none" => (agg[p].version = 0 /\ agg[p].uncommitted = <<>>)
          /\ Applied(p, "applyEventNew")
             => /\ agg'[p].version = agg[p].version + 1
                /\ agg'[p].uncommitted
                     = Append(agg[p].uncommitted,
                              [local'[p].events[1] EXCEPT !.aggregateVersion = agg[p].version + 1])
                /\ agg'[p].id = agg[p].id
          /\ Applied(p, "applyEventHistorical")
             => /\ agg'[p].version = agg[p].version + 1
                /\ agg'[p].uncommitted = agg[p].uncommitted
                /\ agg'[p].id = agg[p].id
          /\ agg'[p] # agg[p] => result'[p].op \in {"applyEventNew", "applyEventHistorical"}]_vars

C30_Witness ==
    \E p \in Procs :
       /\ result[p].op = "applyEventHistorical"
       /\ agg[p].version = 2
       /\ Len(agg[p].uncommitted) = 1
       /\ agg[p].uncommitted[1].aggregateVersion = 1
       /\ local[p].events[1].type = "UserLoggedInEvent"

\* --------------------------------------------------------- what getById gives
\* caller p's getById reads the events of a stream that exists and returns
GetByIdReads(p) ==
    pc[p] = "getById" /\ pc'[p] = "idle" /\ Len(StreamOf(local[p].id)) > 0

\* C31: getById(id) on an existing aggregate returns an aggregate of that id whose
\* version is the stream's version at the time its events are read and whose
\* buffer is empty, whether it is built from all events, from a snapshot at
\* version V and the events with aggregateVersion > V, or from a snapshot alone.
C31_GetByIdVersion ==
    [][\A p \in Procs :
          GetByIdReads(p)
          => /\ result'[p].outcome = "ok"
             /\ agg'[p].id = local[p].id
             /\ agg'[p].version = RecordedVersion(local[p].id)
             /\ agg'[p].uncommitted = <<>>]_vars

\* ------------------------------------------------------ periodic snapshots
\* C32: with a snapshot store, every successful save that takes the aggregate's
\* version from below a multiple of 10 to that multiple or above it, with one
\* event or with a batch, stores a snapshot at the version after the save.
C32_SnapshotOnCrossing ==
    [][\A p \in Procs :
          (/\ SaveCompletes(p)
           /\ loadedVersion[p] < SnapshotInterval
           /\ agg[p].version >= SnapshotInterval)
          => /\ agg[p].id \in DOMAIN snapshots'
             /\ snapshots'[agg[p].id].version = agg[p].version]_vars

\* ------------------------------------------------------ unknown event types
KnownOnly(s) == SelectSeq(s, LAMBDA e : e.metadata.eventType \in KnownEventTypes)

\* the business state fields of an aggregate
BusinessState(a) ==
    [status |-> a.status, email |-> a.email, isEmailVerified |-> a.isEmailVerified,
     userName |-> a.userName]

\* a is what a load of the stream of id gives: its version counts every stored
\* event, its business state is that of the events of known types alone
LoadedSkippingUnknown(a, id) ==
    /\ a.id = id
    /\ a.version = Len(StreamOf(id))
    /\ a.uncommitted = <<>>
    /\ BusinessState(a)
         = BusinessState(ApplyHistory(NewAggregate(id),
                                      deserializeEvents(KnownOnly(StreamOf(id)), now)))

\* C33: a stored event whose eventType is none of the five known ones is skipped
\* in the same way by getById and by replayFromHistory: the load does not fail,
\* the event changes no business state field (status, email, verified flag,
\* name), and it counts for the version, so the version of the loaded aggregate
\* is the number of stored events.
C33_UnknownEventSkipped ==
    [][\A p \in Procs :
          /\ (GetByIdReads(p) /\ local[p].fromVersion <= Len(StreamOf(local[p].id)))
             => /\ result'[p].outcome = "ok"
                /\ LoadedSkippingUnknown(agg'[p], local[p].id)
          /\ (Called(p, "replayFromHistory") /\ \E id \in Ids : Len(StreamOf(id)) > 0)
             => /\ result'[p].outcome = "ok"
                /\ LoadedSkippingUnknown(agg'[p], agg'[p].id)]_vars

C33_Witness ==
    \E p \in Procs :
       /\ Gave(result[p], "getById", "ok")
       /\ StreamTypes(agg[p].id) = <<"UserCreatedEvent", "UserBlockedEvent", "UserLoggedInEvent",
                                     "UserLoggedInEvent">>
       /\ agg[p].version = 4
       /\ agg[p].status = "blocked"
       /\ agg[p].email = "a@x.com"
       /\ agg[p].id \in DOMAIN snapshots
       /\ snapshots[agg[p].id].version = 2

\* -------------------------------------------------------------- projections
\* the stored event e is among the events that consumer p has received
Received(p, e) == \E k \in 1..Len(local[p].events) : local[p].events[k] = e

\* C34: a consumer that polls getEventsAfter(t) with t the largest timestamp it
\* has received receives every stored event, each once. A later poll returns
\* only events with a timestamp greater than t, so this needs that every stored
\* event the consumer has not received yet has a timestamp greater than its t;
\* and no event is received twice.
C34_ProjectionComplete ==
    \A p \in Procs :
       result[p].op = "getEventsAfter"
       => /\ \A id \in DOMAIN events :
                \A i \in 1..Len(events[id]) :
                   \/ Received(p, events[id][i])
                   \/ events[id][i].metadata.timestamp > local[p].timestamp
          /\ \A k, l \in 1..Len(local[p].events) :
                local[p].events[k] = local[p].events[l] => k = l

\* ---------------------------------------------------------- no lost update
\* C35: whatever the interleaving of callers that load, command and save the
\* same aggregate, no stream holds a UserActivatedEvent at a position after a
\* UserBlockedEvent, so the replay of a stream never takes the status from
\* blocked back to active: the status of the replay is blocked as soon as the
\* stream holds a UserBlockedEvent.
C35_NoActivationAfterBlock ==
    \A id \in DOMAIN events :
       /\ \A i, j \in 1..Len(events[id]) :
             (i < j /\ events[id][i].metadata.eventType = "UserBlockedEvent")
             => events[id][j].metadata.eventType # "UserActivatedEvent"
       /\ (\E i \in 1..Len(events[id]) : events[id][i].metadata.eventType = "UserBlockedEvent")
          => \A uuid \in Uuids : replayFromHistory(events, id, now, uuid).status = "blocked"

C35_Witness ==
    \E p, q \in Procs :
       /\ StreamTypes(agg[p].id) = <<"UserCreatedEvent", "UserBlockedEvent">>
       /\ agg[q].id = agg[p].id
       /\ Gave(result[p], "save", "ConcurrencyError")
       /\ Len(agg[p].uncommitted) = 1
       /\ agg[p].uncommitted[1].type = "UserActivatedEvent"
       /\ agg[p].status = "active"
       /\ Gave(result[q], "save", "ok")
       /\ agg[q].status = "blocked"

\* ------------------------------------------------------ snapshots of save
\* C36: in every interleaving of concurrent loads and saves, the snapshot that
\* repository.save stored for an id is filed under that id, has a version no
\* greater than the version of the stream, and holds the status, the email and
\* the verified flag that folding the first snapshot.version events gives.
C36_SnapshotValid ==
    \A id \in DOMAIN snapshots :
       /\ snapshots[id].aggregateId = id
       /\ snapshots[id].version <= RecordedVersion(id)
       /\ SnapshotOfStream(id)

C36_Witness ==
    \E p, q \in Procs :
       /\ p # q
       /\ agg[p].id \in DOMAIN snapshots
       /\ agg[q].id = agg[p].id
       /\ snapshots[agg[p].id].version = SnapshotInterval
       /\ Gave(result[p], "save", "ok")
       /\ Gave(result[q], "save", "ConcurrencyError")
       /\ agg[q].version = SnapshotInterval
       /\ agg[q].email # snapshots[agg[p].id].data.email

\* ------------------------------------------------- a conflict is permanent
\* the stream of the instance that caller p holds has moved past the version the
\* instance was loaded or last saved at, while the instance holds unsaved events
\* and no save of its own is under way: the state a failed save leaves
Stale(p) ==
    /\ pc[p] = "idle"
    /\ ~IsNull(agg[p])
    /\ agg[p].uncommitted # <<>>
    /\ BaseVersion(agg[p]) < RecordedVersion(agg[p].id)

\* caller p's step gives it another instance
Reloads(p) ==
    \/ pc[p] = "getById"
    \/ pc'[p] = "getById"
    \/ result'[p].op \in {"create", "replayFromHistory"} /\ agg'[p] # agg[p]

\* C37: a save that fails with ConcurrencyError leaves an instance whose stream
\* is ahead of its expectedVersion; as long as its caller does not load again
\* the instance stays so under every step, further commands included, with the
\* same expectedVersion; and every save of such an instance fails with a
\* ConcurrencyError that names that expectedVersion, and appends nothing.
C37_ConflictPermanent ==
    [][\A p \in Procs :
          /\ (Called(p, "save") /\ result'[p].outcome = "ConcurrencyError")
             => Stale(p)'
          /\ (Stale(p) /\ ~Reloads(p))
             => /\ Stale(p)'
                /\ agg'[p].id = agg[p].id
                /\ BaseVersion(agg'[p]) = BaseVersion(agg[p])
                /\ RecordedVersion(agg[p].id)' >= RecordedVersion(agg[p].id)
          /\ (Stale(p) /\ Called(p, "save"))
             => /\ Threw(result'[p], agg[p].id, BaseVersion(agg[p]),
                         RecordedVersion(agg[p].id))
                /\ StoreUnchanged
                /\ agg'[p] = agg[p]]_vars

C37_Witness ==
    \E p \in Procs :
       /\ Gave(result[p], "save", "ConcurrencyError")
       /\ Len(agg[p].uncommitted) = 2
       /\ Threw(result[p], agg[p].id, 1, 2)
       /\ agg[p].version = 3
       /\ Len(StreamOf(agg[p].id)) = 2

\* --------------------------------------------------- streams are well formed
\* C38: in every state reached through create, getById, the commands and save,
\* every stream that holds events begins with a UserCreatedEvent stored at
\* aggregateVersion 1, holds no other UserCreatedEvent, and every event of it
\* carries, in its metadata and in its data, the id the stream is filed under.
C38_StreamWellFormed ==
    \A id \in DOMAIN events :
       LET stream == events[id]
       IN  /\ stream # <<>> =>
                /\ stream[1].metadata.eventType = "UserCreatedEvent"
                /\ stream[1].metadata.aggregateVersion = 1
                /\ stream[1].data.type = "UserCreatedEvent"
           /\ \A i \in 2..Len(stream) : stream[i].metadata.eventType # "UserCreatedEvent"
           /\ \A i \in 1..Len(stream) :
                 /\ stream[i].metadata.aggregateId = id
                 /\ stream[i].data.aggregateId = id

C38_Witness ==
    /\ DOMAIN events = TwoIds
    /\ \A id \in TwoIds : StreamTypes(id) = <<"UserCreatedEvent", "UserBlockedEvent">>
    /\ \A p \in Procs : Gave(result[p], "save", "ok")
    /\ agg[1].id # agg[2].id

\* ------------------------------------------------ timestamps and the store
\* C39: the aggregate that getById or replayFromHistory has rebuilt has as its
\* createdAt the occurredAt that the stream's UserCreatedEvent was saved with,
\* whatever the time of the rebuild.
C39_CreatedAtSurvives ==
    \A p \in Procs :
       (/\ pc[p] = "idle"
        /\ result[p].op \in {"getById", "replayFromHistory"}
        /\ result[p].outcome = "ok"
        /\ StreamOf(agg[p].id) # <<>>)
       => agg[p].createdAt = NewDate(StreamOf(agg[p].id)[1].data.occurredAt)

\* ------------------------------------------------ progress under contention
\* caller p has left its loop: its save went through, or its command was
\* rejected, or its command had nothing to do
Finished(p) ==
    /\ pc[p] = "idle"
    /\ \/ result[p].op = "save" /\ result[p].outcome = "ok"
       \/ /\ result[p].op \in UserCommands
          /\ (result[p].outcome = "Error" \/ agg[p].uncommitted = <<>>)

\* a save of caller p that was rejected lost against a save that went through:
\* the stream holds an event at the version p's events were to start at
LostToASave(p) ==
    (result[p].op = "save" /\ result[p].outcome = "ConcurrencyError")
    => /\ result[p].expectedVersion < result[p].actualVersion
       /\ Len(StreamOf(result[p].aggregateId)) > result[p].expectedVersion
       /\ StreamOf(result[p].aggregateId)[result[p].expectedVersion + 1]
             .metadata.aggregateVersion = result[p].expectedVersion + 1

\* C40: of the callers that each repeat getById, command, save on the same
\* aggregate until the save does not fail with ConcurrencyError, the command is
\* rejected or has nothing to do, every one eventually finishes and stays
\* finished under weak fairness; and a save is rejected only when another save
\* against the same version has gone through.
C40_Progress ==
    /\ [](\A p \in Contenders : LostToASave(p))
    /\ \A p \in Contenders : <>[]Finished(p)

C40_Witness ==
    \E p, q \in Contenders :
       /\ p # q
       /\ Finished(p)
       /\ Gave(result[p], "save", "ok")
       /\ agg[p].version = 2
       /\ Threw(result[q], "u1", 1, 2)
       /\ Gave(result[q], "save", "ConcurrencyError")
       /\ Len(agg[q].uncommitted) = 1

====
